---- MODULE Spec2Model ----
(***************************************************************************)
(* The session channel of the sprite SSH proxy                             *)
(* (internal/sshserver/server.go): the request dispatcher of one session   *)
(* (handleSession / handleReq), the run task started by exec with its      *)
(* retry loop (exec / runCommand / shouldRetry), and the window-sync tasks *)
(* (listenForWindowChange) that share the session's condition variable.    *)
(*                                                                         *)
(* Strings are modelled as sequences of words; an env entry NAME=VALUE as  *)
(* the pair <<NAME, VALUE>>; an int64 as four 16-bit limbs, little endian, *)
(* two's complement.                                                       *)
(***************************************************************************)
EXTENDS Integers, Sequences, FiniteSets, TLC

\* ------------------------------------------------------------------------
\* Bounds of the model
\* ------------------------------------------------------------------------

\* requests the dispatcher handles on one session channel, counted from
\* the initial state
MaxReqs == 2
\* ServerConfig.MaxRetries ranges over 0..MaxCfgRetries where the retry loop
\* is explored for any configuration
MaxCfgRetries == 2
\* window-sync tasks of earlier attempts that may still be alive when a new
\* attempt begins
MaxStale == 1
\* attempts explored together with the request dispatcher (the retry loop
\* on its own is explored to its end)
MaxDepth == 2
\* attempt numbers for which the backoff delay is computed on its own
MaxBackoffAttempt == 64

\* ------------------------------------------------------------------------
\* Program constants
\* ------------------------------------------------------------------------

\* exec: maxRetries = max(maxRetries, 10) for shells
ShellMinRetries == 10
\* exec: 1 << min(attempt, 63)
MaxShift == 63
\* time.Second in nanoseconds (time.Duration is an int64 count of ns)
NanosPerSecond == 1000000000
\* maxBackoffDuration = 10 * time.Second
MaxBackoffSeconds == 10
\* cmd serve: ServerConfig{MaxRetries: 5}
ServeMaxRetries == 5

Max(a, b) == IF a >= b THEN a ELSE b
Min(a, b) == IF a <= b THEN a ELSE b

\* uint16(x) of a uint32 x
U16(x) == x % 65536

\* ------------------------------------------------------------------------
\* int64 arithmetic of the backoff computation (server.go:714)
\* ------------------------------------------------------------------------

\* an int64 is kept as four limbs of 16 bits
LimbBase == 2 ^ 16

\* the int64 holding n, for 0 <= n < 2^31
I64(n) == << n % LimbBase, (n \div LimbBase) % LimbBase, 0, 0 >>

I64Zero == << 0, 0, 0, 0 >>

\* a * m in int64 (wrapping), for a small non-negative m
MulI64(a, m) ==
    LET p1 == a[1] * m
        p2 == a[2] * m + (p1 \div LimbBase)
        p3 == a[3] * m + (p2 \div LimbBase)
        p4 == a[4] * m + (p3 \div LimbBase)
    IN  << p1 % LimbBase, p2 % LimbBase, p3 % LimbBase, p4 % LimbBase >>

\* int64(1) << k : bit k set; bit 63 is the sign bit; a count of 64 or more
\* shifts the bit out
Shl1(k) ==
    IF k > 63 THEN I64Zero
    ELSE [i \in 1..4 |-> IF i - 1 = k \div 16 THEN 2 ^ (k % 16) ELSE 0]

IsNegI64(a) == a[4] >= 32768

\* a < b as signed int64
LessI64(a, b) ==
    IF IsNegI64(a) # IsNegI64(b) THEN IsNegI64(a)
    ELSE \E i \in 1..4 : a[i] < b[i] /\ \A j \in (i + 1)..4 : a[j] = b[j]

MinI64(a, b) == IF LessI64(b, a) THEN b ELSE a

\* var maxBackoffDuration = 10 * time.Second
maxBackoffDuration == MulI64(I64(NanosPerSecond), MaxBackoffSeconds)

\* delay := min(1<<min(attempt, 63), int64(maxBackoffDuration))
\* The shifted constant takes the type int64 from the other operand of min.
backoffDelay(attempt) ==
    MinI64(Shl1(Min(attempt, MaxShift)), maxBackoffDuration)

\* mrand.Int63n(n) panics when n <= 0, and otherwise returns a value of
\* [0, n): the set of possible sleeps is given by its exclusive bound n.
Int63nPanics(n) == IsNegI64(n) \/ n = I64Zero

\* ------------------------------------------------------------------------
\* Errors and shouldRetry (server.go:743-766)
\* ------------------------------------------------------------------------

\* An error value: its text (words of err.Error()), and whether it is a
\* net.Error whose Timeout() is true (errors.As(err, &ne) && ne.Timeout()).
\* kind names the sample.
NoErr == [kind |-> "nil", text |-> << >>, timeout |-> FALSE]

\* context.Canceled
ErrCanceled ==
    [kind |-> "canceled", text |-> <<"context", "canceled">>, timeout |-> FALSE]
\* context.DeadlineExceeded: its type has Timeout() and Temporary(), so it
\* is a net.Error, and Timeout() returns true
ErrDeadline ==
    [kind |-> "deadline", text |-> <<"context", "deadline", "exceeded">>,
     timeout |-> TRUE]
\* the provider rejecting the bearer token
ErrAuth ==
    [kind |-> "auth", text |-> <<"authentication", "failed">>, timeout |-> FALSE]
\* the provider rejecting a malformed request
ErrMalformed ==
    [kind |-> "malformed", text |-> <<"bad", "request">>, timeout |-> FALSE]
\* a reset TCP connection, as some platforms capitalise it
ErrReset ==
    [kind |-> "reset",
     text |-> <<"read", "tcp:", "Connection", "reset", "by", "peer">>,
     timeout |-> FALSE]
\* io.EOF, as SendRequest returns on a closed channel
ErrEOF == [kind |-> "eof", text |-> <<"EOF">>, timeout |-> FALSE]

Errors == {ErrCanceled, ErrDeadline, ErrAuth, ErrMalformed, ErrReset, ErrEOF}

\* strings.ToLower, word by word
ToLowerWord(w) ==
    CASE w = "Connection" -> "connection"
      [] w = "EOF" -> "eof"
      [] OTHER -> w
ToLower(s) == [i \in 1..Len(s) |-> ToLowerWord(s[i])]

\* strings.Contains
Contains(s, sub) ==
    \E i \in 1..(Len(s) - Len(sub) + 1) : SubSeq(s, i, i + Len(sub) - 1) = sub

transientMessages ==
    << <<"connection", "refused">>,
       <<"connection", "reset">>,
       <<"connection", "reset", "by", "peer">>,
       <<"no", "such", "host">>,
       <<"i/o", "timeout">>,
       <<"broken", "pipe">>,
       <<"websocket:", "close">> >>

shouldRetry(err) ==
    \/ err.timeout
    \/ LET errLower == ToLower(err.text)
       IN  \E k \in 1..Len(transientMessages) :
               Contains(errLower, transientMessages[k])

\* ------------------------------------------------------------------------
\* The session: state
\* ------------------------------------------------------------------------

VARIABLES
    cfgRetries,   \* sshConn.maxSpriteRetries (ServerConfig.MaxRetries)
    env,          \* session.env
    tty,          \* session.tty
    running,      \* session.running
    win,          \* session.win
    hs,           \* handleSession: "serving", or "returned" (channel closed)
    ctxDone,      \* sessionCtx is cancelled
    nreq,         \* requests taken from reqs since the initial state
    lastReq,      \* the last request handled: its type, and err == nil
    runTasks,     \* goroutines started by exec
    pc,           \* position of the run task (the goroutine of exec)
    attempt,      \* exec: attempt
    maxRetries,   \* exec: maxRetries after the shell adjustment
    isShell,      \* exec: isShell
    command,      \* exec: command
    err,          \* exec: err of the current iteration
    delay,        \* exec: delay
    rRows,        \* runCommand: s.win.Rows as read for the first SetTTYSize
    cmd,          \* runCommand: the sprites.Cmd of the current attempt
    status,       \* runCommand: exit code Wait gave
    exitSent,     \* exit-status requests sent on the channel
    lwCur,        \* listenForWindowChange task of the current attempt
    lwStale,      \* tasks of earlier attempts still alive: how many, by state
    cleanReturn,  \* some Wait returned nil or an ExitError
    notice,       \* the last [sprite] line exec or runCommand wrote
    cancelEarly   \* the session was cancelled from outside before that

sessVars == << cfgRetries, env, tty, running, win, hs, ctxDone,
               nreq, lastReq, runTasks, pc, attempt, maxRetries, isShell,
               command, err, delay, rRows, cmd, status, exitSent, lwCur,
               lwStale, cleanReturn, notice, cancelEarly >>

\* ------------------------------------------------------------------------
\* The server and its connections: state
\* ------------------------------------------------------------------------

VARIABLES
    closed,         \* Server.closed
    listeners,      \* Server.listeners: the listeners tracked and open
    servePc,        \* position of Serve
    listenCtxDone,  \* Serve: listenCtx is cancelled
    connGroup,      \* Server.connGroup: the counter of the WaitGroup
    sprites,        \* Server.sprites: key -> sprite stored by the callback
    conn,           \* the connections accepted: position of handleConn, ...
    shut            \* the calls of Shutdown: position, and what each did

srvVars == << closed, listeners, servePc, listenCtxDone, connGroup, sprites,
              conn, shut >>

\* ------------------------------------------------------------------------
\* A direct-tcpip channel after the dial, and the host key: state
\* ------------------------------------------------------------------------

VARIABLES
    fwdPc,     \* position of handleDirectTCPIP from the init message on
    response,  \* handleDirectTCPIP: response.Status as ReadJSON decoded it
    pingPc,    \* position of the ping goroutine
    uplink,    \* the goroutine copying from the SSH channel: position, buffer
    downlink,  \* the goroutine copying from the WebSocket: position, data
    wsConn,    \* the WebSocket: closed, frames written, frames to be read
    sshCh      \* the SSH channel: closed, chunks to be read, read, written

fwdVars == << fwdPc, response, pingPc, uplink, downlink, wsConn, sshCh >>

VARIABLES
    runPc,     \* position of runServe, and of LoadOrGenerateHostKey in it
    hostPath,  \* the path LoadOrGenerateHostKey was given
    keyFile,   \* the file at the host key path
    pubFile,   \* the file at the host key path + ".pub"
    hostKey,   \* the signer LoadOrGenerateHostKey returned
    hostErr    \* the error runServe returned

keyVars == << runPc, hostPath, keyFile, pubFile, hostKey, hostErr >>

VARIABLES
    lockPath,     \* the inode at the lock file's path, 0 when there is none
    lockContent,  \* what each inode of the lock file holds: the last pid
    proc,         \* the processes that set up or clean up VS Code
    config        \* the sprite entries of the user's SSH config file

lockVars == << lockPath, lockContent, proc, config >>

\* what the session and the server leave alone
otherVars == << fwdVars, keyVars, lockVars >>

\* Request payloads the client sends.  The wire order of pty-req and
\* window-change is (cols, rows, width, height).
WindowRequests ==
    { [Cols |-> 80, Rows |-> 24, Width |-> 0, Height |-> 0],
      [Cols |-> 120, Rows |-> 65576, Width |-> 0, Height |-> 0] }
EnvNames == {"FOO"}
EnvValues == {"1"}
Terms == {"xterm"}
Commands == {"", "ls"}
ExitCodes == {0, 7}
\* ServerConfig.MaxRetries: the value cmd serve passes, and small ones
CfgValues == (0..MaxCfgRetries) \cup {ServeMaxRetries}

\* Positions of a listenForWindowChange task: spawned (AfterFunc not yet
\* registered), armed (registered, before cond.Wait), waiting (in
\* cond.Wait), notified (woken, before it takes the lock again); the F
\* forms once the task's AfterFunc has run.
TaskStates == {"spawned", "armed", "armedF", "waiting", "waitingF",
               "notified", "notifiedF"}
noTasks == [st \in TaskStates |-> 0]

\* session{ env: []string{"SHELL=/bin/bash", "LANG=...", "LC_ALL=..."} }
defaultEnv ==
    << <<"SHELL", "/bin/bash">>, <<"LANG", "en_US.UTF-8">>,
       <<"LC_ALL", "en_US.UTF-8">> >>

\* the zero windowChangeRequest
zeroWin == [Cols |-> 0, Rows |-> 0, Width |-> 0, Height |-> 0]

noCmd == [argv |-> << >>, env |-> << >>, tty |-> FALSE, rows |-> 0,
          cols |-> 0, started |-> FALSE]

noReq == [type |-> "none", ok |-> TRUE]

\* ------------------------------------------------------------------------
\* The server after NewServer (server.go:82-107), no connection accepted
\* ------------------------------------------------------------------------

\* the connections the model follows over the server's life
MaxConns == 2
Conns == 1..MaxConns

\* the calls of Shutdown the model follows
MaxCallers == 2
Callers == 1..MaxCallers

\* cm.User() and cm.RemoteAddr().String() of the clients
Users == {"u", "u@h"}
Addrs == {"h:1", "h:2"}

noSprite == [name |-> "", by |-> 0]

\* a connection not accepted yet
noConn == [pc |-> "free", user |-> "", addr |-> "", auth |-> "none",
           stored |-> FALSE, sprite |-> noSprite, sshOpen |-> FALSE,
           ctxDone |-> FALSE, ka |-> "none", kaCancelled |-> FALSE,
           chans |-> << >>]

\* a call of Shutdown not made yet
noCall == [pc |-> "idle", result |-> "none", helper |-> "none",
           closedListeners |-> {}, cancelled |-> FALSE]

\* sync.Map: the empty map
noSprites == << >>

\* no frame written or read, nothing to be read
noWs == [closed |-> FALSE, peer |-> "open", n |-> 0, sent |-> << >>,
         inbox |-> << >>, got |-> << >>]

\* no chunk read or written, nothing to be read
noCh == [closed |-> FALSE, peer |-> "open", n |-> 0, inbox |-> "",
         reads |-> << >>, written |-> ""]

\* a copy goroutine that was not started
noTask == [pc |-> "none", data |-> ""]

\* no direct-tcpip channel has dialled the proxy
FwdIdle ==
    /\ fwdPc = "idle"
    /\ response = ""
    /\ pingPc = "none"
    /\ uplink = noTask
    /\ downlink = noTask
    /\ wsConn = noWs
    /\ sshCh = noCh

\* sprite-bootstrap serve was not started
KeysIdle ==
    /\ runPc = "idle"
    /\ hostPath = ""
    /\ keyFile = "absent"
    /\ pubFile = "absent"
    /\ hostKey = ""
    /\ hostErr = ""

\* processes that call addSSHConfigEntry or removeSSHConfigEntry at a time
MaxProcs == 2
Procs == 1..MaxProcs

\* a process before its call: position, the call it makes, the file its
\* lockFile is open on, the loop counter i, the config string it holds,
\* whether it wrote its pid into the lock file, whether it wrote the config
noProc == [pc |-> "idle", op |-> "", fd |-> 0, i |-> 0, configStr |-> {},
           acquired |-> FALSE, wrote |-> FALSE]

\* the SSH config file as far as the sprite entries go: whether the file
\* exists, and the sprites whose marked block it holds (one sprite per
\* process, named as the process)
noConfig == [exists |-> FALSE, hosts |-> {}]

\* no process touches the SSH config file, which has no sprite entry
LocksIdle ==
    /\ lockPath = 0
    /\ lockContent = [p \in Procs |-> 0]
    /\ proc = [p \in Procs |-> noProc]
    /\ config = noConfig

OtherIdle == FwdIdle /\ KeysIdle /\ LocksIdle

ServerIdle ==
    /\ closed = FALSE
    /\ listeners = {}
    /\ servePc = "idle"
    /\ listenCtxDone = FALSE
    /\ connGroup = 0
    /\ sprites = noSprites
    /\ conn = [c \in Conns |-> noConn]
    /\ shut = [k \in Callers |-> noCall]

\* no [sprite] line was written
noNotice == ""

SessionInit ==
    /\ cfgRetries = ServeMaxRetries
    /\ env = defaultEnv
    /\ tty = FALSE
    /\ running = FALSE
    /\ win = zeroWin
    /\ hs = "serving"
    /\ ctxDone = FALSE
    /\ nreq = 0
    /\ lastReq = noReq
    /\ runTasks = 0
    /\ pc = "idle"
    /\ attempt = 0
    /\ maxRetries = 0
    /\ isShell = FALSE
    /\ command = ""
    /\ err = NoErr
    /\ delay = I64Zero
    /\ rRows = 0
    /\ cmd = noCmd
    /\ status = 0
    /\ exitSent = << >>
    /\ lwCur = "none"
    /\ lwStale = noTasks
    /\ cleanReturn = FALSE
    /\ notice = noNotice
    /\ cancelEarly = FALSE

\* ------------------------------------------------------------------------
\* setWindow (server.go:686-692) and the condition variable
\* ------------------------------------------------------------------------

IsWaiting(st) == st \in {"waiting", "waitingF"}

\* a task leaving cond.Wait keeps the note whether its AfterFunc has run
Notified(st) == IF st = "waitingF" THEN "notifiedF" ELSE "notified"

\* the goroutines waiting on s.cond: "cur", or the state of a stale task
Waiters ==
    (IF IsWaiting(lwCur) THEN {"cur"} ELSE {})
        \cup {st \in TaskStates : IsWaiting(st) /\ lwStale[st] > 0}

\* one stale task moves from state a to state b
Move(bag, a, b) == [bag EXCEPT ![a] = @ - 1, ![b] = @ + 1]

\* s.cond.Signal(): wakes one waiting goroutine, if there is any
Signal(j) ==
    IF Waiters = {}
    THEN /\ j = "cur"
         /\ UNCHANGED << lwCur, lwStale >>
    ELSE /\ j \in Waiters
         /\ IF j = "cur"
            THEN /\ lwCur' = Notified(lwCur)
                 /\ lwStale' = lwStale
            ELSE /\ lwCur' = lwCur
                 /\ lwStale' = Move(lwStale, j, Notified(j))

\* s.cond.Broadcast(): wakes all waiting goroutines
BroadcastCur(st) == IF IsWaiting(st) THEN Notified(st) ELSE st
BroadcastStale(bag) ==
    [st \in TaskStates |->
        CASE IsWaiting(st) -> 0
          [] st = "notified" -> bag["notified"] + bag["waiting"]
          [] st = "notifiedF" -> bag["notifiedF"] + bag["waitingF"]
          [] OTHER -> bag[st]]

\* The lock is free at every step of the model: each critical section
\* (setWindow; the AfterFunc; a sync task from leaving Wait to entering it
\* again) is one step.
setWindow(w, j) ==
    /\ win' = w
    /\ Signal(j)

\* ------------------------------------------------------------------------
\* handleReq (server.go:630-684) and exec (server.go:694-741)
\* ------------------------------------------------------------------------

taskVars == << pc, attempt, err, delay, rRows, cmd, status, exitSent,
               cleanReturn, notice >>
execVars == << running, runTasks, maxRetries, isShell, command >>
chanVars == << cfgRetries, hs, ctxDone, cancelEarly, srvVars, otherVars >>

\* handleSession: req.Reply(err == nil, nil), sent when req.WantReply
Handled(type, ok) ==
    /\ nreq' = nreq + 1
    /\ lastReq' = [type |-> type, ok |-> ok]

\* case "env"
envAccepted_NoRunningCheck(malformed) == ~malformed
envAccepted(malformed) == ~malformed /\ ~running

handleEnv(name, value, malformed) ==
    /\ IF envAccepted(malformed)
       THEN /\ env' = Append(env, <<name, value>>)
            /\ Handled("env", TRUE)
       ELSE /\ env' = env
            /\ Handled("env", FALSE)
    /\ UNCHANGED << tty, win, lwCur, lwStale >>
    /\ UNCHANGED << taskVars, execVars, chanVars >>

\* case "pty-req": the payload is (Term, Cols, Rows, Width, Height, Modes)
ptyAccepted(malformed) == ~malformed /\ ~running /\ ~tty

\* windowChangeRequest{pr.Cols, pr.Rows, pr.Width, pr.Height}
ptyWindow(pr) ==
    [Cols |-> pr.Cols, Rows |-> pr.Rows, Width |-> pr.Width,
     Height |-> pr.Height]

handlePty(pr, malformed) ==
    /\ IF ptyAccepted(malformed)
       THEN /\ env' = Append(Append(env, <<"TERM", pr.Term>>),
                             <<"COLORTERM", "truecolor">>)
            /\ tty' = TRUE
            /\ \E j \in {"cur"} \cup TaskStates : setWindow(ptyWindow(pr), j)
            /\ Handled("pty-req", TRUE)
       ELSE /\ UNCHANGED << env, tty, win, lwCur, lwStale >>
            /\ Handled("pty-req", FALSE)
    /\ UNCHANGED << taskVars, execVars, chanVars >>

\* case "window-change": the payload is (Cols, Rows, Width, Height)
handleWindowChange(wr, malformed) ==
    /\ IF malformed
       THEN /\ UNCHANGED << win, lwCur, lwStale >>
            /\ Handled("window-change", FALSE)
       ELSE /\ \E j \in {"cur"} \cup TaskStates : setWindow(wr, j)
            /\ Handled("window-change", TRUE)
    /\ UNCHANGED << env, tty >>
    /\ UNCHANGED << taskVars, execVars, chanVars >>

\* exec: s.running.CompareAndSwap(false, true)
casRunning_NoCheck == TRUE
casRunning == ~running

\* exec: if isShell { maxRetries = max(maxRetries, 10) }
effectiveRetries(shell, retries) ==
    IF shell THEN Max(retries, ShellMinRetries) ELSE retries

\* exec starts the run task (go func) and returns nil, or returns
\* errAlreadyRunning
exec(type, cmdline, shell) ==
    /\ IF casRunning
       THEN /\ running' = TRUE
            /\ maxRetries' = effectiveRetries(shell, cfgRetries)
            /\ isShell' = shell
            /\ command' = cmdline
            /\ runTasks' = runTasks + 1
            /\ pc' = "loop"
            /\ attempt' = 0
            /\ Handled(type, TRUE)
       ELSE /\ UNCHANGED << execVars, pc, attempt >>
            /\ Handled(type, FALSE)
    /\ UNCHANGED << env, tty, win, lwCur, lwStale, chanVars >>
    /\ UNCHANGED << err, delay, rRows, cmd, status, exitSent, cleanReturn,
                    notice >>

\* case "shell"
handleShell == exec("shell", "", TRUE)

\* case "exec": the isShell argument of s.exec, er.Command == ""
execIsShell_Never(cmdline) == FALSE
execIsShell(cmdline) == cmdline = ""

\* case "exec": an empty payload is not unmarshalled and leaves Command ""
handleExec(cmdline, malformed) ==
    IF malformed
    THEN /\ Handled("exec", FALSE)
         /\ UNCHANGED << env, tty, win, lwCur, lwStale >>
         /\ UNCHANGED << taskVars, execVars, chanVars >>
    ELSE exec("exec", cmdline, execIsShell(cmdline))

\* case "agent-auth-req@openssh.com", "signal", "subsystem", "x11-req"
\* (errUnsupportedReq) and default (errUnknownReq)
handleOther(type) ==
    /\ Handled(type, FALSE)
    /\ UNCHANGED << env, tty, win, lwCur, lwStale >>
    /\ UNCHANGED << taskVars, execVars, chanVars >>

PtyRequests ==
    { [Term |-> t, Cols |-> w.Cols, Rows |-> w.Rows, Width |-> w.Width,
       Height |-> w.Height] : t \in Terms, w \in WindowRequests }

\* handleSession (server.go:608-627): case req := <-reqs.  The select may
\* take a request although sessionCtx is done, when both are ready.
handleReq ==
    /\ hs = "serving"
    /\ nreq < MaxReqs
    /\ \/ \E n \in EnvNames, v \in EnvValues, bad \in BOOLEAN :
              handleEnv(n, v, bad)
       \/ \E pr \in PtyRequests, bad \in BOOLEAN : handlePty(pr, bad)
       \/ \E wr \in WindowRequests, bad \in BOOLEAN :
              handleWindowChange(wr, bad)
       \/ handleShell
       \/ \E c \in Commands, bad \in BOOLEAN : handleExec(c, bad)
       \/ \E t \in {"signal", "unknown"} : handleOther(t)

\* A cancellation from outside the session before any clean return of Wait
Early == cancelEarly \/ (~ctxDone /\ ~cleanReturn)

\* handleSession: case <-sessionCtx.Done(): return (defer cancel, ch.Close)
SessionCtxDone ==
    /\ hs = "serving"
    /\ ctxDone
    /\ hs' = "returned"
    /\ UNCHANGED << cfgRetries, ctxDone, cancelEarly, env, tty, win, lwCur,
                    lwStale, nreq, lastReq >>
    /\ UNCHANGED << taskVars, execVars, srvVars, otherVars >>

\* handleSession: defer cancel(), at its return: whether sessionCtx is done
\* afterwards
deferredCancel_Skip(done) == done
deferredCancel(done) == TRUE

\* handleSession: req == nil, the client closed the channel: return
\* (defer cancel, ch.Close)
ReqsClosed ==
    /\ hs = "serving"
    /\ hs' = "returned"
    /\ ctxDone' = deferredCancel(ctxDone)
    /\ cancelEarly' = Early
    /\ UNCHANGED << cfgRetries, env, tty, win, lwCur, lwStale, nreq,
                    lastReq >>
    /\ UNCHANGED << taskVars, execVars, srvVars, otherVars >>

\* the connection's scope, parent of sessionCtx, is cancelled
\* (handleConn: connCancel; Shutdown)
ConnCancel ==
    /\ ~ctxDone
    /\ ctxDone' = TRUE
    /\ cancelEarly' = Early
    /\ UNCHANGED << cfgRetries, hs, env, tty, win, lwCur, lwStale, nreq,
                    lastReq >>
    /\ UNCHANGED << taskVars, execVars, srvVars, otherVars >>

\* ------------------------------------------------------------------------
\* The run task: the retry loop of exec and runCommand (server.go:704-825)
\* ------------------------------------------------------------------------

\* handleSession: defer ch.Close()
chClosed == hs = "returned"

reqVars == << cfgRetries, env, tty, running, win, hs, nreq,
              lastReq, runTasks, maxRetries, isShell, command, srvVars,
              otherVars >>

\* runCommand: the argv of s.sprite.CommandContext
argv_FlagsSwapped(shell, t, cmdline) ==
    IF shell /\ t THEN <<"/bin/bash", "-l">>
    ELSE IF shell THEN <<"/bin/bash", "-li">>
    ELSE <<"/bin/bash", "-c", cmdline>>
argv(shell, t, cmdline) ==
    IF shell /\ t THEN <<"/bin/bash", "-li">>
    ELSE IF shell THEN <<"/bin/bash", "-l">>
    ELSE <<"/bin/bash", "-c", cmdline>>

\* exec: if shouldRetry(err) && attempt < maxRetries
retryAllowed_OffByOne(e, att, mx) == shouldRetry(e) /\ att <= mx
retryAllowed_NoClassify(e, att, mx) == att < mx
retryAllowed(e, att, mx) == shouldRetry(e) /\ att < mx

\* runCommand returns (defer cancel() of winCtx): its window-sync task, if
\* alive, stays behind with a cancelled context
Retire ==
    IF lwCur = "none"
    THEN UNCHANGED << lwCur, lwStale >>
    ELSE /\ lwCur' = "none"
         /\ lwStale' = [lwStale EXCEPT ![lwCur] = @ + 1]

\* exec:739 s.cancel(), after the loop: whether sessionCtx is done afterwards
sCancel_Skip(done) == done
sCancel(done) == TRUE

\* the escape character of the Go literals, "\033", spelt out
ESC == "\\033"

\* exec:718 fmt.Sprintf("\r\n\033[33m[sprite] Connection lost, reconnecting
\* (attempt %d/%d)...\033[0m\r\n", attempt+1, maxRetries)
reconnecting(k, N) ==
    "\r\n" \o ESC \o "[33m[sprite] Connection lost, reconnecting (attempt "
    \o ToString(k) \o "/" \o ToString(N) \o ")..." \o ESC \o "[0m\r\n"

\* runCommand:803 "\033[32m[sprite] Reconnected!\033[0m\r\n"
reconnected == ESC \o "[32m[sprite] Reconnected!" \o ESC \o "[0m\r\n"

\* exec:717 and runCommand:802: isShell && s.tty
notifies_AnyShell(shell, t) == shell
notifies(shell, t) == shell /\ t

\* exec, after runCommand returned e: break on nil; sleep before a retry;
\* otherwise log and break.  After the loop: s.cancel().
Returned(e) ==
    /\ err' = e
    /\ cmd' = noCmd
    /\ status' = 0
    /\ Retire
    /\ IF e = NoErr
       THEN /\ pc' = "done"
            /\ ctxDone' = sCancel(ctxDone)
            /\ delay' = delay
            /\ notice' = notice
       ELSE IF retryAllowed(e, attempt, maxRetries)
       THEN /\ delay' = backoffDelay(attempt)
            /\ notice' = IF notifies(isShell, tty)
                          THEN reconnecting(attempt + 1, maxRetries)
                          ELSE notice
            /\ pc' = IF Int63nPanics(delay') THEN "panic" ELSE "backoff"
            /\ ctxDone' = ctxDone
       ELSE /\ pc' = "done"
            /\ ctxDone' = sCancel(ctxDone)
            /\ delay' = delay
            /\ notice' = notice

\* window-sync tasks of earlier attempts that are still alive
liveStale == lwStale["spawned"] + lwStale["armed"] + lwStale["armedF"]
             + lwStale["waiting"] + lwStale["waitingF"]
             + lwStale["notified"] + lwStale["notifiedF"]

\* exec: attempt++; runCommand: build cmd, cmd.Env = s.env, SetTTY(true)
RcBegin ==
    /\ pc = "loop"
    /\ attempt' = attempt + 1
    /\ cmd' = [argv |-> argv(isShell, tty, command), env |-> env,
               tty |-> tty, rows |-> 0, cols |-> 0, started |-> FALSE]
    /\ pc' = IF tty THEN "rows" ELSE "start"
    /\ UNCHANGED << reqVars, ctxDone, cancelEarly, err, delay, rRows, status,
                    exitSent, lwCur, lwStale, cleanReturn, notice >>

\* runCommand:788 evaluates uint16(s.win.Rows), without the lock
RcReadRows ==
    /\ pc = "rows"
    /\ rRows' = win.Rows
    /\ pc' = "size"
    /\ UNCHANGED << reqVars, ctxDone, cancelEarly, attempt, err, delay, cmd,
                    status, exitSent, lwCur, lwStale, cleanReturn, notice >>

\* the arguments of cmd.SetTTYSize at runCommand:788
initSize(r, w) == << U16(r), U16(w.Cols) >>

\* runCommand:788-792 evaluates uint16(s.win.Cols), calls cmd.SetTTYSize
\* and spawns listenForWindowChange(winCtx, cmd)
RcSetSize ==
    /\ pc = "size"
    /\ cmd' = [cmd EXCEPT !.rows = initSize(rRows, win)[1],
                          !.cols = initSize(rRows, win)[2]]
    /\ lwCur' = "spawned"
    /\ rRows' = 0
    /\ pc' = "start"
    /\ UNCHANGED << reqVars, ctxDone, cancelEarly, attempt, err, delay,
                    status, exitSent, lwStale, cleanReturn, notice >>

\* errors a call of the provider SDK can return: context.Canceled only when
\* the context is cancelled
CallErrors == {e \in Errors \ {ErrEOF} : e = ErrCanceled => ctxDone}

\* runCommand:797 cmd.Start() succeeds; 802-804 if attempt > 1 && isShell &&
\* s.tty { s.ch.Write("[sprite] Reconnected!") }, the result of the write
\* not being looked at
RcStartOk ==
    /\ pc = "start"
    /\ cmd' = [cmd EXCEPT !.started = TRUE]
    /\ notice' = IF attempt > 1 /\ notifies(isShell, tty)
                  THEN reconnected
                  ELSE notice
    /\ pc' = "wait"
    /\ UNCHANGED << reqVars, ctxDone, cancelEarly, attempt, err, delay, rRows,
                    status, exitSent, lwCur, lwStale, cleanReturn >>

\* runCommand:797 cmd.Start() fails: return err
RcStartFail ==
    /\ pc = "start"
    /\ \E e \in CallErrors : Returned(e)
    /\ UNCHANGED << reqVars, cancelEarly, attempt, rRows, exitSent,
                    cleanReturn >>

\* runCommand:812 cmd.Wait() returns nil (code 0) or an ExitError: the
\* process ended, on its own or killed through its context
RcWaitExit ==
    /\ pc = "wait"
    /\ \E k \in ExitCodes : status' = k
    /\ cleanReturn' = TRUE
    /\ pc' = "send"
    /\ UNCHANGED << reqVars, ctxDone, cancelEarly, attempt, err, delay, rRows,
                    cmd, exitSent, lwCur, lwStale, notice >>

\* runCommand:812 cmd.Wait() returns another error: return err
RcWaitFail ==
    /\ pc = "wait"
    /\ \E e \in CallErrors : Returned(e)
    /\ UNCHANGED << reqVars, cancelEarly, attempt, rRows, exitSent,
                    cleanReturn >>

\* errors of ch.SendRequest: io.EOF on a closed channel, or a failed write
\* to the client's connection
SendErrors == {ErrEOF, ErrReset}

\* binary.BigEndian.PutUint32(status[:], uint32(code)); status is all zero
\* when Wait returned nil
PutUint32_LittleEndian(k) ==
    << k % 256, (k \div 256) % 256, (k \div 65536) % 256,
       (k \div 16777216) % 256 >>
PutUint32(k) ==
    << (k \div 16777216) % 256, (k \div 65536) % 256, (k \div 256) % 256,
       k % 256 >>

\* s.ch.SendRequest("exit-status", false, status[:])
exitStatusRequest(k) ==
    [type |-> "exit-status", wantReply |-> FALSE, payload |-> PutUint32(k)]

\* what runCommand returns when SendRequest failed with e
sendResult_Swallow(e) == NoErr
sendResult(e) == e

\* runCommand:820 s.ch.SendRequest("exit-status", false, status) succeeds
RcSendOk ==
    /\ pc = "send"
    /\ ~chClosed
    /\ exitSent' = Append(exitSent, exitStatusRequest(status))
    /\ Returned(NoErr)
    /\ UNCHANGED << reqVars, cancelEarly, attempt, rRows, cleanReturn >>

\* runCommand:820 SendRequest fails: return err
RcSendFail ==
    /\ pc = "send"
    /\ \E e \in SendErrors : Returned(sendResult(e))
    /\ UNCHANGED << reqVars, cancelEarly, attempt, rRows, exitSent,
                    cleanReturn >>

\* exec:728 case <-time.After(...): continue (err goes out of scope).  When
\* the context is done as well, select takes either ready case.
BackoffTimer ==
    /\ pc = "backoff"
    /\ pc' = "loop"
    /\ err' = NoErr
    /\ UNCHANGED << reqVars, ctxDone, cancelEarly, attempt, delay, rRows,
                    cmd, status, exitSent, lwCur, lwStale, cleanReturn,
                    notice >>

\* exec:730 case <-ctx.Done(): err = ctx.Err(); log, break, s.cancel()
BackoffCancelled ==
    /\ pc = "backoff"
    /\ ctxDone
    /\ err' = ErrCanceled
    /\ pc' = "done"
    /\ UNCHANGED << reqVars, ctxDone, cancelEarly, attempt, delay, rRows, cmd,
                    status, exitSent, lwCur, lwStale, cleanReturn, notice >>

\* ------------------------------------------------------------------------
\* listenForWindowChange (server.go:827-847), one task per tty attempt.
\* The task of the current attempt is lwCur and its winCtx is done when
\* sessionCtx is; the tasks in lwStale are those whose runCommand returned,
\* so their winCtx is done.
\* ------------------------------------------------------------------------

lwFrame == << reqVars, ctxDone, cancelEarly, pc, attempt, err, delay, rRows,
              status, exitSent, cleanReturn, notice >>

\* the task's state once its AfterFunc has run
WithF(st) ==
    CASE st = "armed" -> "armedF"
      [] st = "waiting" -> "waitingF"
      [] st = "notified" -> "notifiedF"
      [] OTHER -> st

\* context.AfterFunc(ctx, f) registers f
lwRegister ==
    /\ \/ /\ lwCur = "spawned"
          /\ lwCur' = "armed"
          /\ lwStale' = lwStale
       \/ /\ lwStale["spawned"] > 0
          /\ lwStale' = Move(lwStale, "spawned", "armed")
          /\ lwCur' = lwCur
    /\ UNCHANGED << lwFrame, cmd >>

\* f, in its own goroutine once ctx is done: Lock, Broadcast, Unlock.
\* stopf() at the task's return keeps f from running afterwards.
lwAfterFunc ==
    /\ \/ /\ lwCur \in {"armed", "waiting", "notified"}
          /\ ctxDone
          /\ lwCur' = BroadcastCur(WithF(lwCur))
          /\ lwStale' = BroadcastStale(lwStale)
       \/ \E st \in {"armed", "waiting", "notified"} :
            /\ lwStale[st] > 0
            /\ lwStale' = BroadcastStale(Move(lwStale, st, WithF(st)))
            /\ lwCur' = BroadcastCur(lwCur)
    /\ UNCHANGED << lwFrame, cmd >>

\* s.cond.L.Lock(); s.cond.Wait(): the task waits without looking at ctx
lwWait ==
    /\ \/ /\ lwCur \in {"armed", "armedF"}
          /\ lwCur' = IF lwCur = "armed" THEN "waiting" ELSE "waitingF"
          /\ lwStale' = lwStale
       \/ \E st \in {"armed", "armedF"} :
            /\ lwStale[st] > 0
            /\ lwStale' = Move(lwStale, st,
                               IF st = "armed" THEN "waiting" ELSE "waitingF")
            /\ lwCur' = lwCur
    /\ UNCHANGED << lwFrame, cmd >>

\* the arguments of cmd.SetTTYSize at listenForWindowChange:843
syncSize_Swapped(w) == << U16(w.Cols), U16(w.Rows) >>
syncSize(w) == << U16(w.Rows), U16(w.Cols) >>

\* Wait returns with the lock held and ctx.Err() is nil: SetTTYSize, then
\* wait again, or return its error
lwWakeSync ==
    /\ lwCur \in {"notified", "notifiedF"}
    /\ ~ctxDone
    /\ \/ /\ cmd' = [cmd EXCEPT !.rows = syncSize(win)[1],
                                !.cols = syncSize(win)[2]]
          /\ lwCur' = "waiting"
       \/ /\ cmd.started
          /\ cmd' = cmd
          /\ lwCur' = "none"
    /\ UNCHANGED << lwFrame, lwStale >>

\* Wait returns with the lock held and ctx.Err() is not nil: return
lwWakeReturn ==
    /\ \/ /\ lwCur \in {"notified", "notifiedF"}
          /\ ctxDone
          /\ lwCur' = "none"
          /\ lwStale' = lwStale
       \/ \E st \in {"notified", "notifiedF"} :
            /\ lwStale[st] > 0
            /\ lwStale' = [lwStale EXCEPT ![st] = @ - 1]
            /\ lwCur' = lwCur
    /\ UNCHANGED << lwFrame, cmd >>

listenForWindowChange ==
    lwRegister \/ lwAfterFunc \/ lwWait \/ lwWakeSync \/ lwWakeReturn

\* ------------------------------------------------------------------------
\* The session as a whole
\* ------------------------------------------------------------------------

runCommand ==
    \/ RcReadRows \/ RcSetSize
    \/ RcStartOk \/ RcStartFail
    \/ RcWaitExit \/ RcWaitFail
    \/ RcSendOk \/ RcSendFail

vars == << sessVars, srvVars, otherVars >>

Init == SessionInit /\ ServerIdle /\ OtherIdle

\* bounds of the exploration, not of the program
StaleBound == liveStale <= MaxStale
DepthBound == attempt < MaxDepth

cancellation == SessionCtxDone \/ ReqsClosed \/ ConnCancel

backoff == BackoffTimer \/ BackoffCancelled

Next ==
    \/ handleReq
    \/ cancellation
    \/ (StaleBound /\ DepthBound /\ RcBegin)
    \/ runCommand
    \/ backoff
    \/ listenForWindowChange

Spec == Init /\ [][Next]_vars

\* The session just after its pty-req, of 80 columns, was accepted
PtyInit ==
    \E pr \in {r \in PtyRequests : r.Cols = 80} :
        /\ cfgRetries = ServeMaxRetries
        /\ env = Append(Append(defaultEnv, <<"TERM", pr.Term>>),
                        <<"COLORTERM", "truecolor">>)
        /\ tty = TRUE
        /\ running = FALSE
        /\ win = ptyWindow(pr)
        /\ hs = "serving"
        /\ ctxDone = FALSE
        /\ nreq = 0
        /\ lastReq = [type |-> "pty-req", ok |-> TRUE]
        /\ runTasks = 0
        /\ pc = "idle"
        /\ attempt = 0
        /\ maxRetries = 0
        /\ isShell = FALSE
        /\ command = ""
        /\ err = NoErr
        /\ delay = I64Zero
        /\ rRows = 0
        /\ cmd = noCmd
        /\ status = 0
        /\ exitSent = << >>
        /\ lwCur = "none"
        /\ lwStale = noTasks
        /\ cleanReturn = FALSE
        /\ notice = noNotice
        /\ cancelEarly = FALSE
        /\ ServerIdle
        /\ OtherIdle

\* the requests of a client that, its pty granted, asks for a shell and
\* resizes its terminal
ptySession ==
    /\ hs = "serving"
    /\ nreq < MaxReqs
    /\ \/ handleShell
       \/ \E wr \in WindowRequests, bad \in BOOLEAN :
              handleWindowChange(wr, bad)

PtyNext ==
    \/ ptySession
    \/ cancellation
    \/ (StaleBound /\ DepthBound /\ RcBegin)
    \/ runCommand
    \/ backoff
    \/ listenForWindowChange

\* a shell session with a pty: one request further than Spec
PtySpec == PtyInit /\ [][PtyNext]_vars

\* The session just after exec accepted a shell or exec request, with or
\* without a pty
RunInit ==
    \E shell \in BOOLEAN, t \in BOOLEAN,
       pr \in {r \in PtyRequests : r.Cols = 80} :
        /\ cfgRetries \in CfgValues
        /\ env = IF t THEN Append(Append(defaultEnv, <<"TERM", pr.Term>>),
                                  <<"COLORTERM", "truecolor">>)
                 ELSE defaultEnv
        /\ tty = t
        /\ running = TRUE
        /\ win = IF t THEN ptyWindow(pr) ELSE zeroWin
        /\ hs = "serving"
        /\ ctxDone = FALSE
        /\ nreq = 0
        /\ lastReq = [type |-> IF shell THEN "shell" ELSE "exec", ok |-> TRUE]
        /\ runTasks = 1
        /\ pc = "loop"
        /\ attempt = 0
        /\ maxRetries = effectiveRetries(shell, cfgRetries)
        /\ isShell = shell
        /\ command = IF shell THEN "" ELSE "ls"
        /\ err = NoErr
        /\ delay = I64Zero
        /\ rRows = 0
        /\ cmd = noCmd
        /\ status = 0
        /\ exitSent = << >>
        /\ lwCur = "none"
        /\ lwStale = noTasks
        /\ cleanReturn = FALSE
        /\ notice = noNotice
        /\ cancelEarly = FALSE
        /\ ServerIdle
        /\ OtherIdle

\* the retry loop to its end, the client sending no further request
RunNext ==
    \/ cancellation
    \/ (StaleBound /\ RcBegin)
    \/ runCommand
    \/ backoff
    \/ listenForWindowChange

RunSpec == RunInit /\ [][RunNext]_vars

\* The retry decision of exec for attempt numbers 1..MaxBackoffAttempt: an
\* exec session without pty whose run task is about to start the process
\* for the attempt-th time, under a configuration that allows one more.
BackoffInit ==
    \E n \in 1..MaxBackoffAttempt :
        /\ cfgRetries = n + 1
        /\ env = defaultEnv
        /\ tty = FALSE
        /\ running = TRUE
        /\ win = zeroWin
        /\ hs = "serving"
        /\ ctxDone = FALSE
        /\ nreq = 0
        /\ lastReq = [type |-> "exec", ok |-> TRUE]
        /\ runTasks = 1
        /\ pc = "start"
        /\ attempt = n
        /\ maxRetries = effectiveRetries(FALSE, cfgRetries)
        /\ isShell = FALSE
        /\ command = "ls"
        /\ err = NoErr
        /\ delay = I64Zero
        /\ rRows = 0
        /\ cmd = [argv |-> argv(FALSE, FALSE, "ls"), env |-> defaultEnv,
                  tty |-> FALSE, rows |-> 0, cols |-> 0, started |-> FALSE]
        /\ status = 0
        /\ exitSent = << >>
        /\ lwCur = "none"
        /\ lwStale = noTasks
        /\ cleanReturn = FALSE
        /\ notice = noNotice
        /\ cancelEarly = FALSE
        /\ ServerIdle
        /\ OtherIdle

BackoffNext == RcStartFail \/ ConnCancel \/ backoff

BackoffSpec == BackoffInit /\ [][BackoffNext]_vars

\* ------------------------------------------------------------------------
\* Properties
\* ------------------------------------------------------------------------

\* C1, as stated: a run task that has ended has sent an exit-status request,
\* or the session was cancelled from outside before a clean return of the
\* remote process.
C1_ExitStatusOrCancelled ==
    pc = "done" => (exitSent # << >> \/ cancelEarly)

\* C1, amended: a run task that has ended has sent an exit-status request,
\* or the session was cancelled from outside before a clean return of the
\* remote process, or the loop ended with an error (a fatal error, retries
\* exhausted, or exit-status could not be sent).
C1_Outcomes ==
    pc = "done" => (exitSent # << >> \/ cancelEarly \/ err # NoErr)

\* C1: the third outcome: the loop ended on a fatal error, nothing was sent
\* and nobody cancelled from outside
C1_FatalOutcome ==
    /\ pc = "done"
    /\ err = ErrAuth
    /\ exitSent = << >>
    /\ ~cancelEarly

\* C2: in a tty session whose process is running and whose window-sync task
\* is waiting with no notification pending, the remote terminal size is the
\* size of the window received last.
C2_SizeFollowsWindow ==
    (pc = "wait" /\ tty /\ lwCur = "waiting") =>
        << cmd.rows, cmd.cols >> = << U16(win.Rows), U16(win.Cols) >>

\* rows and cols the client sends, as uint16
RowValues == {U16(w.Rows) : w \in WindowRequests}
ColValues == {U16(w.Cols) : w \in WindowRequests}

\* C3: the remote size always has a rows value in its rows and a cols value
\* in its cols; the call before start passes (rows read, s.win.Cols) and
\* each call of the window-sync task passes (s.win.Rows, s.win.Cols).
C3_RowsThenCols ==
    /\ [](/\ cmd.rows \in RowValues \cup {0}
          /\ cmd.cols \in ColValues \cup {0})
    /\ [][/\ (pc = "size" /\ pc' = "start") =>
                << cmd'.rows, cmd'.cols >> = << U16(rRows), U16(win.Cols) >>
          /\ (lwCur \in {"notified", "notifiedF"} /\ lwCur' = "waiting") =>
                << cmd'.rows, cmd'.cols >>
                    = << U16(win.Rows), U16(win.Cols) >>
         ]_vars

\* C3: a resize to 120 columns and 65576 (uint16: 40) rows has reached the
\* running process
C3_ResizeForwarded ==
    /\ pc = "wait"
    /\ lwCur = "waiting"
    /\ win.Rows > 65535
    /\ cmd.rows = U16(win.Rows)
    /\ cmd.cols = U16(win.Cols)
    /\ cmd.rows # cmd.cols

C5_LateRequestRejected ==
    [][(/\ nreq' = nreq + 1
        /\ \/ lastReq'.type \in {"env", "pty-req"} /\ running
           \/ lastReq'.type = "pty-req" /\ tty) =>
            (~lastReq'.ok /\ env' = env /\ tty' = tty /\ win' = win)
      ]_vars

\* C5: an env request was rejected on a running session
C5_EnvAfterRunning ==
    /\ running
    /\ lastReq = [type |-> "env", ok |-> FALSE]

\* C6, as stated: the attempt count never exceeds maxRetries (after the
\* shell adjustment).
C6_AttemptsWithinMaxRetries ==
    attempt <= maxRetries

\* C6, amended: the attempt count never exceeds max(1, maxRetries) (after
\* the shell adjustment): the first attempt is made whatever the value.
C6_AttemptBound ==
    attempt <= Max(1, maxRetries)

\* C6: a shell session made all its ten attempts
C6_ShellExhausted ==
    /\ isShell
    /\ attempt = ShellMinRetries
    /\ attempt = maxRetries
    /\ pc = "done"

\* C7, as stated: when runCommand returns an error, the loop goes on to
\* another attempt iff shouldRetry holds and attempts remain; authentication
\* failures, malformed requests, context cancellation and deadline errors
\* end the loop.
C7_DeadlineFatal ==
    [][(/\ pc \in {"start", "wait", "send"}
        /\ pc' \in {"backoff", "panic", "done"}
        /\ err' # NoErr) =>
            /\ (pc' # "done") <=> (shouldRetry(err') /\ attempt < maxRetries)
            /\ err'.kind \in {"auth", "malformed", "canceled", "deadline"}
                  => pc' = "done"
      ]_vars

\* C7, amended: when runCommand returns an error, the loop goes on to
\* another attempt iff shouldRetry holds and attempts remain; authentication
\* failures, malformed requests and context cancellation end the loop; a
\* deadline error (a net.Error whose Timeout() is true) and a reset
\* connection are retried while attempts remain.
C7_RetryIffTransient ==
    [][(/\ pc \in {"start", "wait", "send"}
        /\ pc' \in {"backoff", "panic", "done"}
        /\ err' # NoErr) =>
            /\ (pc' # "done") <=> (shouldRetry(err') /\ attempt < maxRetries)
            /\ err'.kind \in {"auth", "malformed", "canceled"} => pc' = "done"
            /\ (err'.kind \in {"deadline", "reset"} /\ attempt < maxRetries)
                  => pc' = "backoff"
      ]_vars

\* C7: the loop sleeps before a retry after a deadline error
C7_DeadlineRetried ==
    /\ pc = "backoff"
    /\ err = ErrDeadline

\* C8: once sessionCtx is cancelled, a loop that has made an attempt makes
\* no further one.
C8_NoAttemptAfterCancel ==
    [][(ctxDone /\ attempt >= 1) => attempt' = attempt]_vars

\* the bound of C9 in nanoseconds: 2^n seconds is above 10 s from n = 4 on
claimedBackoffBound(n) ==
    IF n >= 4 THEN maxBackoffDuration ELSE MulI64(I64(NanosPerSecond), 2 ^ n)

\* C9: whenever the loop retries after attempt n, the delay is drawn (the
\* computation does not panic) and the set of possible delays is
\* [0, min(2^n seconds, 10 s)).
C9_DelayInterval ==
    pc \in {"backoff", "panic"} =>
        (pc = "backoff" /\ delay = claimedBackoffBound(attempt))

\* C10: the process is started with the env list and tty flag of the
\* session and, when the window-sync task is waiting with no notification
\* pending, with the size of the window received last; no step changes env
\* or tty while running is true.
C10_StartsWithSessionSettings ==
    [][/\ (pc = "start" /\ pc' = "wait") =>
            /\ cmd'.env = env
            /\ cmd'.tty = tty
            /\ (tty /\ lwCur = "waiting") =>
                  << cmd'.rows, cmd'.cols >>
                      = << U16(win.Rows), U16(win.Cols) >>
       /\ running => (env' = env /\ tty' = tty)
      ]_vars

\* C11: once the session was cancelled from outside before Wait returned
\* nil or an ExitError, no exit-status request is sent any more.
C11_NoStatusAfterCancel ==
    [][cancelEarly => exitSent' = exitSent]_vars

\* the uint32 a 4-byte big-endian payload carries
BigEndianValue(b) == ((b[1] * 256 + b[2]) * 256 + b[3]) * 256 + b[4]

\* C12: at most one exit-status request is sent, and a run that ended
\* without error has sent one; a request is sent by the run task after Wait,
\* while the channel is open, with want-reply false and the exit code Wait
\* gave as 4 bytes, big endian.
C12_ExitStatusOnce ==
    /\ [](/\ Len(exitSent) <= 1
          /\ (pc = "done" /\ err = NoErr) => Len(exitSent) = 1)
    /\ [][exitSent' # exitSent =>
            /\ pc = "send"
            /\ hs = "serving"
            /\ Len(exitSent') = Len(exitSent) + 1
            /\ LET r == exitSent'[Len(exitSent')]
               IN  /\ r.type = "exit-status"
                   /\ r.wantReply = FALSE
                   /\ Len(r.payload) = 4
                   /\ \A i \in 1..4 : r.payload[i] \in 0..255
                   /\ BigEndianValue(r.payload) = status
         ]_vars

\* C12: the process ended with code 7 and the request was sent on the open
\* channel
C12_StatusSevenSent ==
    /\ pc = "done"
    /\ Len(exitSent) = 1
    /\ exitSent[1].payload = << 0, 0, 0, 7 >>
    /\ hs = "serving"

\* C13: a loop that ended with an error has cancelled the session scope and
\* has sent no exit-status, and sends none afterwards; the session handler
\* has returned (which closes the channel) or can take its Done case.
C13_FatalTeardown ==
    /\ []((pc = "done" /\ err # NoErr) =>
            /\ ctxDone
            /\ exitSent = << >>
            /\ (hs = "returned" \/ ENABLED SessionCtxDone))
    /\ [][(pc = "done" /\ err # NoErr) =>
            (exitSent' = exitSent /\ pc' = "done")]_vars

\* C13: a malformed request ended the loop and the handler has returned
C13_TornDown ==
    /\ pc = "done"
    /\ err = ErrMalformed
    /\ ~cancelEarly
    /\ hs = "returned"
    /\ exitSent = << >>

\* C14: the argv of every attempt is /bin/bash -li for a shell with tty,
\* /bin/bash -l for a shell without, /bin/bash -c command otherwise; the
\* configuration does not change once the session is running.
C14_ArgvTable ==
    /\ [](cmd # noCmd =>
            cmd.argv = IF isShell
                       THEN IF tty THEN << "/bin/bash", "-li" >>
                                   ELSE << "/bin/bash", "-l" >>
                       ELSE << "/bin/bash", "-c", command >>)
    /\ [][running =>
            (isShell' = isShell /\ tty' = tty /\ command' = command)]_vars

\* C14: the second attempt of a shell with tty
C14_RetriedLoginShell ==
    /\ attempt = 2
    /\ cmd.argv = << "/bin/bash", "-li" >>

\* ------------------------------------------------------------------------
\* Authentication and dispatch (server.go:109-132, 146-165, 234-257)
\* ------------------------------------------------------------------------

\* fmt.Sprintf("%s@%s", user, remoteAddr.String())
key_NoAddr(user, addr) == user \o "@"
key(user, addr) == user \o "@" \o addr

\* sync.Map.Store
Store(m, k, v) == [x \in DOMAIN m \cup {k} |-> IF x = k THEN v ELSE m[x]]

\* sync.Map.LoadAndDelete: the map afterwards
LoadAndDelete(m, k) == [x \in DOMAIN m \ {k} |-> m[x]]

\* getSprite: the sprite returned, noSprite for nil
getSprite(m, user, addr) ==
    IF key(user, addr) \in DOMAIN m THEN m[key(user, addr)] ELSE noSprite

\* the TCP connection of c is open: its remote address is in use
tcpOpen(c) == conn[c].pc \in {"handshake", "getSprite", "loop", "wait"}

\* NewServer: _, cancel := context.WithCancel(context.Background()); the
\* context is done once Shutdown has called srv.cancel()
rootCtxDone == \E k \in Callers : shut[k].cancelled

\* connCtx of c is done: connCancel was called, or listenCtx, its parent, is
\* cancelled
connCtxDone_FromRoot(c) == conn[c].ctxDone \/ listenCtxDone \/ rootCtxDone
connCtxDone(c) == conn[c].ctxDone \/ listenCtxDone

serveFrame == << closed, listeners, servePc, listenCtxDone, shut >>

\* the listener cmd serve binds and gives to Serve
TheListener == "l"

\* Serve: l.Accept() returned a connection, which a listener that Shutdown
\* closed does not; go handleConn; the next iteration's connGroup.Add(1).
\* The client is the one of user u at address a, an address no open
\* connection has.
Accept(c, u, a) ==
    /\ servePc = "accepting"
    /\ TheListener \in listeners
    /\ conn[c].pc = "free"
    /\ \A d \in Conns : d < c => conn[d].pc # "free"
    /\ \A d \in Conns : tcpOpen(d) => conn[d].addr # a
    /\ conn' = [conn EXCEPT ![c] = [noConn EXCEPT !.pc = "handshake",
                                                  !.user = u, !.addr = a]]
    /\ connGroup' = connGroup + 1
    /\ UNCHANGED << sprites, serveFrame, sessVars, otherVars >>

\* publicKeyCallback, called by ssh.NewServerConn when the client offers a
\* public key, before any signature is verified: GetSprite finds the sprite
\* (found) or fails.
publicKeyCallback(c, found) ==
    /\ conn[c].pc = "handshake"
    /\ conn[c].auth # "accepted"
    /\ IF found
       THEN /\ sprites' = Store(sprites, key(conn[c].user, conn[c].addr),
                                [name |-> conn[c].user, by |-> c])
            /\ conn' = [conn EXCEPT ![c].auth = "accepted",
                                    ![c].stored = TRUE]
       ELSE /\ sprites' = sprites
            /\ conn' = [conn EXCEPT ![c].auth = "failed"]
    /\ UNCHANGED << connGroup, serveFrame, sessVars, otherVars >>

\* ssh.NewServerConn returned the connection: the client signed with the key
\* the callback accepted
HandshakeOk(c) ==
    /\ conn[c].pc = "handshake"
    /\ conn[c].auth = "accepted"
    /\ conn' = [conn EXCEPT ![c].pc = "getSprite", ![c].sshOpen = TRUE]
    /\ UNCHANGED << connGroup, sprites, serveFrame, sessVars, otherVars >>

\* ssh.NewServerConn returned an error: no method succeeded, the signature
\* was missing or wrong, the protocol was violated, or the client
\* disconnected.  handleConn returns; defer connGroup.Done().
HandshakeFail(c) ==
    /\ conn[c].pc = "handshake"
    /\ conn' = [conn EXCEPT ![c].pc = "done"]
    /\ connGroup' = connGroup - 1
    /\ UNCHANGED << sprites, serveFrame, sessVars, otherVars >>

\* handleConn: sprite := srv.getSprite(...); nil: newConn.Close() and return
\* (c.Wait() has nothing to wait for; connGroup.Done()); otherwise connCtx
\* is made and the keepalive task started
Dispatch(c) ==
    /\ conn[c].pc = "getSprite"
    /\ LET v == getSprite(sprites, conn[c].user, conn[c].addr)
       IN  /\ sprites' = LoadAndDelete(sprites,
                                       key(conn[c].user, conn[c].addr))
           /\ IF v = noSprite
              THEN /\ conn' = [conn EXCEPT ![c].pc = "done",
                                           ![c].sshOpen = FALSE]
                   /\ connGroup' = connGroup - 1
              ELSE /\ conn' = [conn EXCEPT ![c].pc = "loop",
                                           ![c].sprite = v,
                                           ![c].ka = "idle"]
                   /\ connGroup' = connGroup
    /\ UNCHANGED << serveFrame, sessVars, otherVars >>

\* ------------------------------------------------------------------------
\* The connection: dispatcher loop, keepalive, channel handlers
\* (server.go:259-334, 390-559, 582-628)
\* ------------------------------------------------------------------------

\* the channels a client opens on one connection
MaxChans == 2

ChannelTypes == {"session", "direct-tcpip", "x11"}

connFrame == << connGroup, sprites, serveFrame, sessVars, otherVars >>

\* handleConn: the switch on newCh.ChannelType()
dispatchChannel_AcceptAll(type) ==
    IF type = "direct-tcpip" THEN "handleDirectTCPIP" ELSE "handleSession"
dispatchChannel(type) ==
    IF type = "session" THEN "handleSession"
    ELSE IF type = "direct-tcpip" THEN "handleDirectTCPIP"
    ELSE "Reject"

\* a channel whose handler goroutine was started by go
spawned(type) ==
    [type |-> type, handler |-> dispatchChannel(type), st |-> "spawned",
     reason |-> "", message |-> ""]

\* newCh.Reject(reason, message)
rejected(type, reason, message) ==
    [type |-> type, handler |-> "Reject", st |-> "rejected",
     reason |-> reason, message |-> message]

\* c.wg: the handlers that called c.wg.Add(1) and have not returned
wgCount(c) ==
    Cardinality({i \in DOMAIN conn[c].chans :
                    conn[c].chans[i].st \in
                        {"serving", "dial", "handshake", "copy"}})

\* handleConn: case newCh := <-chans, the client opened a channel of the
\* given type
OpenChannel(c, type) ==
    /\ conn[c].pc = "loop"
    /\ conn[c].sshOpen
    /\ Len(conn[c].chans) < MaxChans
    /\ conn' = [conn EXCEPT ![c].chans =
                   Append(@, IF dispatchChannel(type) = "Reject"
                             THEN rejected(type, "UnknownChannelType",
                                           "unknown channel type")
                             ELSE spawned(type))]
    /\ UNCHANGED connFrame

\* handleConn: case <-connCtx.Done(): c.Close(); return (defer connCancel)
LoopCtxDone(c) ==
    /\ conn[c].pc = "loop"
    /\ connCtxDone(c)
    /\ conn' = [conn EXCEPT ![c].pc = "wait", ![c].sshOpen = FALSE,
                            ![c].ctxDone = TRUE]
    /\ UNCHANGED connFrame

\* the client disconnects, or the connection breaks
ClientDisconnect(c) ==
    /\ conn[c].pc \in {"loop", "wait"}
    /\ conn[c].sshOpen
    /\ conn' = [conn EXCEPT ![c].sshOpen = FALSE]
    /\ UNCHANGED connFrame

\* handleConn: newCh == nil or req == nil, the connection is closed: return
\* (defer connCancel)
ChansClosed(c) ==
    /\ conn[c].pc = "loop"
    /\ ~conn[c].sshOpen
    /\ conn' = [conn EXCEPT ![c].pc = "wait", ![c].ctxDone = TRUE]
    /\ UNCHANGED connFrame

\* handleConn: deferred c.Wait() returns; deferred connGroup.Done()
WaitDone(c) ==
    /\ conn[c].pc = "wait"
    /\ wgCount(c) = 0
    /\ conn' = [conn EXCEPT ![c].pc = "done"]
    /\ connGroup' = connGroup - 1
    /\ UNCHANGED << sprites, serveFrame, sessVars, otherVars >>

\* keepalive: case <-ticker.C: the request is sent by a goroutine
KaTick(c) ==
    /\ conn[c].ka = "idle"
    /\ conn' = [conn EXCEPT ![c].ka = "sent"]
    /\ UNCHANGED connFrame

\* keepalive: case ok := <-done.  SendRequest returned no error (the client
\* answered), or an error: cancel() and return
KaReply(c, ok) ==
    /\ conn[c].ka = "sent"
    /\ ok => conn[c].sshOpen
    /\ conn' = IF ok
               THEN [conn EXCEPT ![c].ka = "idle"]
               ELSE [conn EXCEPT ![c].ka = "returned", ![c].ctxDone = TRUE,
                                 ![c].kaCancelled = TRUE]
    /\ UNCHANGED connFrame

\* keepalive: case <-time.After(keepaliveTimeout): cancel() and return
KaTimeout(c) ==
    /\ conn[c].ka = "sent"
    /\ conn' = [conn EXCEPT ![c].ka = "returned", ![c].ctxDone = TRUE,
                            ![c].kaCancelled = TRUE]
    /\ UNCHANGED connFrame

\* keepalive: case <-ctx.Done(): return, in either select
KaCtxDone(c) ==
    /\ conn[c].ka \in {"idle", "sent"}
    /\ connCtxDone(c)
    /\ conn' = [conn EXCEPT ![c].ka = "returned"]
    /\ UNCHANGED connFrame

setChan(c, i, st) == [conn EXCEPT ![c].chans[i].st = st]

\* handleSession: c.wg.Add(1), newCh.Accept(): the session is served; on a
\* closed connection Accept fails and the handler returns
SessAdd(c, i) ==
    /\ i \in DOMAIN conn[c].chans
    /\ conn[c].chans[i].handler = "handleSession"
    /\ conn[c].chans[i].st = "spawned"
    /\ conn' = setChan(c, i, IF conn[c].sshOpen THEN "serving"
                                               ELSE "returned")
    /\ UNCHANGED connFrame

\* handleSession: case <-sessionCtx.Done(), sessionCtx being a child of
\* connCtx: return
SessCtxDone(c, i) ==
    /\ i \in DOMAIN conn[c].chans
    /\ conn[c].chans[i].handler = "handleSession"
    /\ conn[c].chans[i].st = "serving"
    /\ connCtxDone(c)
    /\ conn' = setChan(c, i, "returned")
    /\ UNCHANGED connFrame

\* handleSession: req == nil because the connection is closed: return
SessReqsClosed(c, i) ==
    /\ i \in DOMAIN conn[c].chans
    /\ conn[c].chans[i].handler = "handleSession"
    /\ conn[c].chans[i].st = "serving"
    /\ ~conn[c].sshOpen
    /\ conn' = setChan(c, i, "returned")
    /\ UNCHANGED connFrame

\* handleSession: the client closed the channel, or the session cancelled
\* its own scope after its command ended: return
SessEnds(c, i) ==
    /\ i \in DOMAIN conn[c].chans
    /\ conn[c].chans[i].handler = "handleSession"
    /\ conn[c].chans[i].st = "serving"
    /\ conn[c].sshOpen
    /\ conn' = setChan(c, i, "returned")
    /\ UNCHANGED connFrame

\* handleDirectTCPIP: c.wg.Add(1); the channel data is parsed (or the channel
\* rejected), the channel accepted (on a closed connection Accept fails and
\* the handler returns), the WebSocket dial begun
FwdAdd(c, i, parsed) ==
    /\ i \in DOMAIN conn[c].chans
    /\ conn[c].chans[i].handler = "handleDirectTCPIP"
    /\ conn[c].chans[i].st = "spawned"
    /\ conn' = IF parsed
               THEN setChan(c, i, IF conn[c].sshOpen THEN "dial"
                                                     ELSE "returned")
               ELSE [conn EXCEPT ![c].chans[i] =
                        rejected(@.type, "ConnectionFailed",
                                 "failed to parse channel data")]
    /\ UNCHANGED connFrame

\* handleDirectTCPIP: dialer.DialContext returned, the proxy having answered
\* the dial (ok), which needs a context not yet done, or refused it
FwdDialed(c, i, ok) ==
    /\ i \in DOMAIN conn[c].chans
    /\ conn[c].chans[i].st = "dial"
    /\ ok => ~connCtxDone(c)
    /\ conn' = setChan(c, i, IF ok THEN "handshake" ELSE "returned")
    /\ UNCHANGED connFrame

\* handleDirectTCPIP: dialer.DialContext returned the context's error
FwdDialCancelled(c, i) ==
    /\ i \in DOMAIN conn[c].chans
    /\ conn[c].chans[i].st = "dial"
    /\ connCtxDone(c)
    /\ conn' = setChan(c, i, "returned")
    /\ UNCHANGED connFrame

\* handleDirectTCPIP: wsConn.WriteJSON and wsConn.ReadJSON returned: the
\* proxy answered "connected", or something else, or the WebSocket failed.
\* Neither call takes the context or has a deadline.
FwdHandshake(c, i, connected) ==
    /\ i \in DOMAIN conn[c].chans
    /\ conn[c].chans[i].st = "handshake"
    /\ conn' = setChan(c, i, IF connected THEN "copy" ELSE "returned")
    /\ UNCHANGED connFrame

\* handleDirectTCPIP: the copy ended by the client's EOF or by the proxy
\* closing the WebSocket
FwdCopyEnds(c, i) ==
    /\ i \in DOMAIN conn[c].chans
    /\ conn[c].chans[i].st = "copy"
    /\ conn[c].sshOpen
    /\ conn' = setChan(c, i, "returned")
    /\ UNCHANGED connFrame

\* handleDirectTCPIP: the SSH connection is closed: ch.Read fails, the
\* uplink closes the WebSocket, the downlink's ReadMessage and the next ping
\* fail
FwdCopyClosed(c, i) ==
    /\ i \in DOMAIN conn[c].chans
    /\ conn[c].chans[i].st = "copy"
    /\ ~conn[c].sshOpen
    /\ conn' = setChan(c, i, "returned")
    /\ UNCHANGED connFrame

\* The steps by which handleConn and the handlers its c.Wait() waits for move
\* towards their return without any message from the client or the proxy
Finishing(c) ==
    \/ LoopCtxDone(c)
    \/ ChansClosed(c)
    \/ WaitDone(c)
    \/ \E i \in DOMAIN conn[c].chans :
          \/ SessCtxDone(c, i)
          \/ SessReqsClosed(c, i)
          \/ FwdDialCancelled(c, i)
          \/ FwdCopyClosed(c, i)

\* ------------------------------------------------------------------------
\* Serve and Shutdown (server.go:146-213)
\* ------------------------------------------------------------------------

shutFrame == << sprites, conn, sessVars, otherVars >>

\* trackListener(l, true): if srv.closed.Load() { return errServerClosed }
trackAdmits_NoCheck(isClosed) == TRUE
trackAdmits(isClosed) == ~isClosed

\* Serve: trackListener(l, true); errServerClosed when the server is closed
\* (deferred cancel of listenCtx)
ServeTrack ==
    /\ servePc = "idle"
    /\ IF ~trackAdmits(closed)
       THEN /\ servePc' = "returned"
            /\ listenCtxDone' = TRUE
            /\ listeners' = listeners
       ELSE /\ servePc' = "tracked"
            /\ listeners' = listeners \cup {TheListener}
            /\ listenCtxDone' = listenCtxDone
    /\ UNCHANGED << closed, connGroup, shut, shutFrame >>

\* Serve: srv.connGroup.Add(1) of the first iteration
ServeAdd ==
    /\ servePc = "tracked"
    /\ servePc' = "accepting"
    /\ connGroup' = connGroup + 1
    /\ UNCHANGED << closed, listeners, listenCtxDone, shut, shutFrame >>

\* Serve: l.Accept() fails on the closed listener: connGroup.Done(), return
\* (deferred trackListener(l, false) and cancel of listenCtx)
AcceptFail ==
    /\ servePc = "accepting"
    /\ TheListener \notin listeners
    /\ servePc' = "returned"
    /\ connGroup' = connGroup - 1
    /\ listeners' = listeners \ {TheListener}
    /\ listenCtxDone' = TRUE
    /\ UNCHANGED << closed, shut, shutFrame >>

\* Serve: l.Accept() fails on the open listener, the process being out of
\* file descriptors or the connection aborted before it was accepted: the
\* same connGroup.Done() and return
AcceptError ==
    /\ servePc = "accepting"
    /\ TheListener \in listeners
    /\ servePc' = "returned"
    /\ connGroup' = connGroup - 1
    /\ listeners' = listeners \ {TheListener}
    /\ listenCtxDone' = TRUE
    /\ UNCHANGED << closed, shut, shutFrame >>

\* srv.closed.CompareAndSwap(false, true): whether it swapped
casClosed_NoCheck(old) == TRUE
casClosed(old) == old = FALSE

\* Shutdown: the CompareAndSwap; errServerClosed when it did not swap
ShutdownCAS(k) ==
    /\ shut[k].pc = "idle"
    /\ \A j \in Callers : j < k => shut[j].pc # "idle"
    /\ IF casClosed(closed)
       THEN /\ closed' = TRUE
            /\ shut' = [shut EXCEPT ![k].pc = "close"]
       ELSE /\ closed' = closed
            /\ shut' = [shut EXCEPT ![k].pc = "returned",
                                    ![k].result = "server closed"]
    /\ UNCHANGED << listeners, servePc, listenCtxDone, connGroup,
                    shutFrame >>

\* Shutdown: srv.cancel(), which cancels the context NewServer discarded;
\* every listener is closed and deleted; the helper goroutine is started
\* and the select entered
ShutdownClose(k) ==
    /\ shut[k].pc = "close"
    /\ listeners' = {}
    /\ shut' = [shut EXCEPT ![k].pc = "select", ![k].helper = "waiting",
                            ![k].closedListeners = listeners,
                            ![k].cancelled = TRUE]
    /\ UNCHANGED << closed, servePc, listenCtxDone, connGroup, shutFrame >>

\* Shutdown's helper: srv.connGroup.Wait() returned
HelperDrained(k) ==
    /\ shut[k].helper = "waiting"
    /\ connGroup = 0
    /\ shut' = [shut EXCEPT ![k].helper = "sending"]
    /\ UNCHANGED << closed, listeners, servePc, listenCtxDone, connGroup,
                    shutFrame >>

\* Shutdown: case <-shutdown: return nil
ShutdownDrained(k) ==
    /\ shut[k].pc = "select"
    /\ shut[k].helper = "sending"
    /\ shut' = [shut EXCEPT ![k].pc = "returned", ![k].result = "nil",
                            ![k].helper = "returned"]
    /\ UNCHANGED << closed, listeners, servePc, listenCtxDone, connGroup,
                    shutFrame >>

\* Shutdown: case <-ctx.Done(): return ctx.Err()
ShutdownDeadline(k) ==
    /\ shut[k].pc = "select"
    /\ shut' = [shut EXCEPT ![k].pc = "returned", ![k].result = "ctx.Err"]
    /\ UNCHANGED << closed, listeners, servePc, listenCtxDone, connGroup,
                    shutFrame >>

\* ------------------------------------------------------------------------
\* Specifications of the server
\* ------------------------------------------------------------------------

\* the server accepting on its listener
Serving ==
    /\ closed = FALSE
    /\ listeners = {TheListener}
    /\ servePc = "accepting"
    /\ listenCtxDone = FALSE
    /\ connGroup = 1
    /\ sprites = noSprites
    /\ conn = [c \in Conns |-> noConn]
    /\ shut = [k \in Callers |-> noCall]

AuthInit == SessionInit /\ Serving /\ OtherIdle

\* the clients' handshakes, up to the dispatch and the end of the connection
AuthNext ==
    \/ \E c \in Conns, u \in Users, a \in Addrs : Accept(c, u, a)
    \/ \E c \in Conns, found \in BOOLEAN : publicKeyCallback(c, found)
    \/ \E c \in Conns : HandshakeOk(c)
    \/ \E c \in Conns : HandshakeFail(c)
    \/ \E c \in Conns : Dispatch(c)
    \/ \E c \in Conns : ClientDisconnect(c)
    \/ \E c \in Conns : ChansClosed(c)
    \/ \E c \in Conns : WaitDone(c)

AuthSpec == AuthInit /\ [][AuthNext]_vars

\* one client, of user "u"
TheConn == 1

ChanIds == 1..MaxChans

ConnInit == SessionInit /\ ServerIdle /\ OtherIdle

handshake ==
    \/ Accept(TheConn, "u", "h:1")
    \/ \E found \in BOOLEAN : publicKeyCallback(TheConn, found)
    \/ HandshakeOk(TheConn)
    \/ HandshakeFail(TheConn)
    \/ Dispatch(TheConn)

dispatcher ==
    \/ \E type \in ChannelTypes : OpenChannel(TheConn, type)
    \/ LoopCtxDone(TheConn)
    \/ ClientDisconnect(TheConn)
    \/ ChansClosed(TheConn)
    \/ WaitDone(TheConn)

keepalive ==
    \/ KaTick(TheConn)
    \/ \E ok \in BOOLEAN : KaReply(TheConn, ok)
    \/ KaTimeout(TheConn)
    \/ KaCtxDone(TheConn)

handleSession ==
    \/ \E i \in ChanIds : SessAdd(TheConn, i)
    \/ \E i \in ChanIds : SessCtxDone(TheConn, i)
    \/ \E i \in ChanIds : SessReqsClosed(TheConn, i)
    \/ \E i \in ChanIds : SessEnds(TheConn, i)

handleDirectTCPIP ==
    \/ \E i \in ChanIds, parsed \in BOOLEAN : FwdAdd(TheConn, i, parsed)
    \/ \E i \in ChanIds, ok \in BOOLEAN : FwdDialed(TheConn, i, ok)
    \/ \E i \in ChanIds : FwdDialCancelled(TheConn, i)
    \/ \E i \in ChanIds, connected \in BOOLEAN :
          FwdHandshake(TheConn, i, connected)
    \/ \E i \in ChanIds : FwdCopyEnds(TheConn, i)
    \/ \E i \in ChanIds : FwdCopyClosed(TheConn, i)

Serve == ServeTrack \/ ServeAdd \/ AcceptFail \/ AcceptError

Shutdown ==
    \E k \in Callers :
        \/ ShutdownCAS(k)
        \/ ShutdownClose(k)
        \/ HelperDrained(k)
        \/ ShutdownDrained(k)
        \/ ShutdownDeadline(k)

ConnNext ==
    \/ Serve
    \/ handshake
    \/ dispatcher
    \/ keepalive
    \/ handleSession
    \/ handleDirectTCPIP
    \/ Shutdown

\* the server from NewServer on, with one client and the calls of Shutdown
ConnSpec == ConnInit /\ [][ConnNext]_vars

\* C15: when the task of a connection has finished, no entry its callback
\* stored is left in the pending-auth map.
C15_EntryRemoved ==
    \A c \in Conns :
        conn[c].pc = "done" =>
            \A k \in DOMAIN sprites : sprites[k].by # c

\* C16: the sprite attached to a connection is the one its own callback
\* resolved, for its own user; it is attached in one step with the removal of
\* the entry from the map, to that connection only, and never replaced.
C16_OwnSpriteOnce ==
    /\ [](\A c \in Conns :
            conn[c].sprite # noSprite =>
                /\ conn[c].sprite.by = c
                /\ conn[c].sprite.name = conn[c].user)
    /\ [][\A c \in Conns :
            conn'[c].sprite # conn[c].sprite =>
                /\ conn[c].sprite = noSprite
                /\ \E k \in DOMAIN sprites : sprites[k] = conn'[c].sprite
                /\ \A k \in DOMAIN sprites' : sprites'[k] # conn'[c].sprite
                /\ \A d \in Conns \ {c} : conn'[d].sprite = conn[d].sprite
         ]_vars

\* C16: two clients of one user, connected at the same time, were both
\* dispatched
C16_TwoDispatched ==
    /\ conn[1].pc = "loop"
    /\ conn[2].pc = "loop"
    /\ conn[1].user = conn[2].user
    /\ conn[1].sprite.by = 1
    /\ conn[2].sprite.by = 2

\* C17: once the keepalive task has cancelled the connection's scope, the
\* connection task, until it has finished, can always take a step towards
\* its return without any message from the client or the proxy.
C17_KeepaliveFailureEndsConn ==
    (conn[TheConn].kaCancelled /\ conn[TheConn].pc # "done") =>
        ENABLED Finishing(TheConn)

\* the channels whose state a step leaves as it was
SameChannels(c) ==
    \A i \in DOMAIN conn[c].chans : conn'[c].chans[i] = conn[c].chans[i]

\* C18: every channel of a type other than session and direct-tcpip is
\* rejected with reason UnknownChannelType and message "unknown channel
\* type"; the step that rejects it leaves the connection in its dispatcher
\* loop, open and not cancelled, and every other channel as it was.
C18_UnknownTypeRejected ==
    /\ [](\A i \in DOMAIN conn[TheConn].chans :
            LET ch == conn[TheConn].chans[i]
            IN  ch.type \notin {"session", "direct-tcpip"} =>
                    /\ ch.st = "rejected"
                    /\ ch.reason = "UnknownChannelType"
                    /\ ch.message = "unknown channel type")
    /\ [][LET n == Len(conn'[TheConn].chans)
          IN  (/\ n > Len(conn[TheConn].chans)
               /\ conn'[TheConn].chans[n].type
                      \notin {"session", "direct-tcpip"}) =>
                  /\ n = Len(conn[TheConn].chans) + 1
                  /\ SameChannels(TheConn)
                  /\ conn'[TheConn].pc = "loop"
                  /\ conn'[TheConn].sshOpen
                  /\ conn'[TheConn].ctxDone = conn[TheConn].ctxDone
                  /\ conn'[TheConn].ka = conn[TheConn].ka
                  /\ UNCHANGED << connGroup, sprites, serveFrame >>
         ]_vars

\* C18: an x11 channel was rejected while a session of the connection was
\* being served, and the session is still served
C18_RejectedBesideSession ==
    /\ conn[TheConn].pc = "loop"
    /\ conn[TheConn].sshOpen
    /\ Len(conn[TheConn].chans) = 2
    /\ conn[TheConn].chans[1].type = "session"
    /\ conn[TheConn].chans[1].st = "serving"
    /\ conn[TheConn].chans[2].type = "x11"
    /\ conn[TheConn].chans[2].st = "rejected"

\* the calls of Shutdown that swapped srv.closed
performers ==
    {k \in Callers : shut[k].pc # "idle" /\ shut[k].result # "server closed"}

\* C19: as soon as Shutdown was called, exactly one call performs the
\* shutdown; the step in which another call returns "server closed" changes
\* nothing of the server, and that call closed no listener and started no
\* helper.
C19_OneShutdown ==
    /\ []((\E k \in Callers : shut[k].pc # "idle") =>
            Cardinality(performers) = 1)
    /\ [][\A k \in Callers :
            (shut'[k].result = "server closed"
                /\ shut[k].result # "server closed") =>
                /\ shut' = [shut EXCEPT ![k] =
                               [noCall EXCEPT !.pc = "returned",
                                              !.result = "server closed"]]
                /\ UNCHANGED << closed, listeners, servePc, listenCtxDone,
                                connGroup, sprites, conn >>
         ]_vars

\* C19: a second call returned "server closed" while the first was waiting
\* for the connections
C19_SecondCallRefused ==
    /\ shut[1].pc = "select"
    /\ shut[2].result = "server closed"
    /\ conn[TheConn].pc = "loop"

\* Shutdown has closed the listeners and Serve has returned, which cancelled
\* listenCtx
ShutdownReached ==
    /\ \E k \in Callers : shut[k].pc \in {"select", "returned"}
                          /\ shut[k].result # "server closed"
    /\ servePc = "returned"

\* C20: once Shutdown has closed the listeners and Serve has returned, a
\* connection task that has not finished can always take a step towards its
\* return without any message from the client or the proxy.
C20_ShutdownEndsEveryConn ==
    (ShutdownReached /\ conn[TheConn].pc \notin {"free", "done"}) =>
        ENABLED (Dispatch(TheConn) \/ Finishing(TheConn))

MaxMsgs == 2
MaxLiveMsgs == 1

textFrame(data) == [type |-> "text", data |-> data]
binaryFrame(data) == [type |-> "binary", data |-> data]
closeFrame == [type |-> "close", data |-> ""]

\* proxyInitMessage{Host: host, Port: port}, host being "localhost" for an
\* empty DestAddr; WriteJSON sends its JSON document as a text message
proxyInitMessage(destAddr, destPort) ==
    textFrame([host |-> IF destAddr = "" THEN "localhost" ELSE destAddr,
               port |-> destPort])

\* the destination of the channel followed: DestAddr "", DestPort 5432
initMsg == proxyInitMessage("", 5432)

connectedJSON == "{\"status\":\"connected\"}"
errorJSON == "{\"status\":\"error\"}"

\* json decoding into proxyResponseMessage: its Status, or "invalid" where
\* the payload is not a JSON document
Status(data) ==
    IF data = connectedJSON THEN "connected"
    ELSE IF data = errorJSON THEN "error"
    ELSE "invalid"

\* what the proxy answers the init message with, and what it sends then
ResponseFrames == {textFrame(connectedJSON), textFrame(errorJSON),
                   textFrame("x")}
\* the payload of the k-th data message of the proxy, which is binary or
\* text, and the k-th chunk the client sends on the channel
payload(k) == << "w", "x", "y", "z" >>[k]
DataFrames(k) == {binaryFrame(payload(k)), textFrame(payload(k))}
chunk(k) == << "a", "b", "c", "d" >>[k]

\* handleDirectTCPIP: if response.Status != "connected" { return }
permitsData_AnyStatus(st) == st # "invalid"
permitsData(st) == st = "connected"

\* a write on the WebSocket succeeds unless it was closed here or the close
\* message of the proxy was read (and answered); it fails in these cases, and
\* may fail once the connection to the proxy is lost
canWrite == ~wsConn.closed /\ wsConn.peer # "closed"
mayFail == wsConn.closed \/ wsConn.peer \in {"closed", "gone"}

\* ch.Read returns an error: nothing is buffered and the client has sent EOF
\* or closed the channel, or the SSH connection is closed
chEnded ==
    /\ sshCh.inbox = ""
    /\ sshCh.peer \in {"eof", "closed"} \/ ~conn[TheConn].sshOpen

\* ch.Write succeeds
chWritable ==
    /\ ~sshCh.closed
    /\ sshCh.peer # "closed"
    /\ conn[TheConn].sshOpen

fwdFrame == << closed, listeners, servePc, listenCtxDone, connGroup, sprites,
               shut, sessVars, keyVars, lockVars >>

\* the channel, the first of the connection, as c.wg counts it
fwdChan(st) == [conn EXCEPT ![TheConn].chans[1].st = st]

\* handleDirectTCPIP returns: the deferred wsConn.Close(), ch.Close() and
\* c.wg.Done(); ws is the WebSocket as the returning step leaves it
fwdReturn(ws) ==
    /\ fwdPc' = "returned"
    /\ wsConn' = [ws EXCEPT !.closed = TRUE]
    /\ sshCh' = [sshCh EXCEPT !.closed = TRUE]
    /\ conn' = fwdChan("returned")

\* wsConn.WriteJSON(&initMsg); on an error return
WriteJSON(ok) ==
    /\ fwdPc = "init"
    /\ IF ok
       THEN /\ canWrite
            /\ wsConn' = [wsConn EXCEPT !.sent = Append(@, initMsg)]
            /\ fwdPc' = "read"
            /\ UNCHANGED << sshCh, conn >>
       ELSE /\ mayFail
            /\ fwdReturn(wsConn)
    /\ UNCHANGED << response, pingPc, uplink, downlink, fwdFrame >>

\* wsConn.ReadJSON(&response): the next message, text or binary, decoded; on
\* an error, or a status that does not permit the data phase, return;
\* otherwise the read deadline is set, wg.Add(3) and the three goroutines
\* are started
ReadJSON ==
    /\ fwdPc = "read"
    /\ IF wsConn.inbox # << >>
       THEN LET frame == Head(wsConn.inbox)
                ws == [wsConn EXCEPT
                          !.inbox = Tail(@),
                          !.peer = IF frame.type = "close" THEN "closed"
                                   ELSE @]
                st == IF frame.type = "close" THEN "invalid"
                      ELSE Status(frame.data)
            IN  /\ response' = IF st = "invalid" THEN response ELSE st
                /\ IF permitsData(st)
                   THEN /\ fwdPc' = "copy"
                        /\ pingPc' = "select"
                        /\ uplink' = [pc |-> "Read", data |-> ""]
                        /\ downlink' = [pc |-> "Read", data |-> ""]
                        /\ wsConn' = ws
                        /\ conn' = fwdChan("copy")
                        /\ UNCHANGED sshCh
                   ELSE /\ fwdReturn(ws)
                        /\ UNCHANGED << pingPc, uplink, downlink >>
       ELSE /\ wsConn.peer = "gone"
            /\ fwdReturn(wsConn)
            /\ UNCHANGED << response, pingPc, uplink, downlink >>
    /\ UNCHANGED fwdFrame

\* the ping goroutine: case <-ctx.Done(): return; case <-ticker.C:
\* WriteControl(PingMessage), and on an error wsConn.Close() and return
pingTask ==
    /\ pingPc = "select"
    /\ \/ /\ connCtxDone(TheConn)
          /\ pingPc' = "done"
          /\ UNCHANGED wsConn
       \/ /\ canWrite
          /\ UNCHANGED << pingPc, wsConn >>
       \/ /\ mayFail
          /\ pingPc' = "done"
          /\ wsConn' = [wsConn EXCEPT !.closed = TRUE]
    /\ UNCHANGED << fwdPc, response, uplink, downlink, sshCh, conn, fwdFrame >>

\* uplink returns, with the deferred wsConn.Close()
uplinkReturn_NoClose ==
    /\ uplink' = [pc |-> "done", data |-> ""]
    /\ UNCHANGED << wsConn, sshCh >>
uplinkReturn ==
    /\ uplink' = [pc |-> "done", data |-> ""]
    /\ wsConn' = [wsConn EXCEPT !.closed = TRUE]
    /\ UNCHANGED sshCh

\* the goroutine copying from the SSH channel to the WebSocket: ch.Read
\* gives what is buffered (far less than the 32 KiB of the buffer here), or
\* an error; WriteMessage(BinaryMessage, buffer[:n]); on either error
\* return, with the deferred wsConn.Close()
uplinkTask ==
    /\ \/ /\ uplink.pc = "Read"
          /\ sshCh.inbox # ""
          /\ uplink' = [pc |-> "Write", data |-> sshCh.inbox]
          /\ sshCh' = [sshCh EXCEPT !.inbox = "",
                                    !.reads = Append(@, sshCh.inbox)]
          /\ UNCHANGED wsConn
       \/ /\ uplink.pc = "Read"
          /\ chEnded
          /\ uplinkReturn
       \/ /\ uplink.pc = "Write"
          /\ canWrite
          /\ wsConn' = [wsConn EXCEPT
                           !.sent = Append(@, binaryFrame(uplink.data))]
          /\ uplink' = [pc |-> "Read", data |-> ""]
          /\ UNCHANGED sshCh
       \/ /\ uplink.pc = "Write"
          /\ mayFail
          /\ uplinkReturn
    /\ UNCHANGED << fwdPc, response, pingPc, downlink, conn, fwdFrame >>

\* downlink: if messageType == websocket.BinaryMessage
forwarded_AnyType(frame) == TRUE
forwarded(frame) == frame.type = "binary"

\* downlink returns, with the deferred ch.Close()
downlinkReturn ==
    /\ downlink' = [pc |-> "done", data |-> ""]
    /\ sshCh' = [sshCh EXCEPT !.closed = TRUE]

\* the goroutine copying from the WebSocket to the SSH channel: ReadMessage
\* returns an error because no message came before the read deadline, which
\* SetReadDeadline set and the pong handler extends
readDeadline ==
    /\ downlink.pc = "Read"
    /\ ~wsConn.closed
    /\ wsConn.inbox = << >>
    /\ wsConn.peer # "gone"
    /\ downlinkReturn
    /\ UNCHANGED << fwdPc, response, pingPc, uplink, wsConn, conn, fwdFrame >>

\* the goroutine copying from the WebSocket to the SSH channel: ReadMessage
\* gives the next message or an error (the WebSocket was closed here, the
\* proxy closed it, or the connection is lost); a binary message is written
\* with ch.Write(data), any other is dropped
downlinkTask ==
    /\ \/ /\ downlink.pc = "Read"
          /\ wsConn.closed \/ (wsConn.inbox = << >> /\ wsConn.peer = "gone")
          /\ downlinkReturn
          /\ UNCHANGED wsConn
       \/ /\ downlink.pc = "Read"
          /\ ~wsConn.closed
          /\ wsConn.inbox # << >>
          /\ LET frame == Head(wsConn.inbox)
             IN  IF frame.type = "close"
                 THEN /\ wsConn' = [wsConn EXCEPT !.inbox = Tail(@),
                                                  !.peer = "closed"]
                      /\ downlinkReturn
                 ELSE /\ wsConn' = [wsConn EXCEPT !.inbox = Tail(@),
                                                  !.got = Append(@, frame)]
                      /\ downlink' = IF forwarded(frame)
                                     THEN [pc |-> "Write",
                                           data |-> frame.data]
                                     ELSE downlink
                      /\ UNCHANGED sshCh
       \/ /\ downlink.pc = "Write"
          /\ chWritable
          /\ sshCh' = [sshCh EXCEPT !.written = @ \o downlink.data]
          /\ downlink' = [pc |-> "Read", data |-> ""]
          /\ UNCHANGED wsConn
       \/ /\ downlink.pc = "Write"
          /\ ~chWritable
          /\ downlinkReturn
          /\ UNCHANGED wsConn
    /\ UNCHANGED << fwdPc, response, pingPc, uplink, conn, fwdFrame >>

\* handleDirectTCPIP: wg.Wait() returns, and the handler
wgWait ==
    /\ fwdPc = "copy"
    /\ pingPc = "done"
    /\ uplink.pc = "done"
    /\ downlink.pc = "done"
    /\ fwdReturn(wsConn)
    /\ UNCHANGED << response, pingPc, uplink, downlink, fwdFrame >>

\* the proxy: it answers the init message and sends data messages, it closes
\* the WebSocket, or the connection to it is lost
proxy(limit) ==
    /\ ~wsConn.closed
    /\ \/ /\ wsConn.peer = "open"
          /\ wsConn.n < limit + 1
          /\ \E frame \in (IF wsConn.n = 0 THEN ResponseFrames
                            ELSE DataFrames(wsConn.n)) :
                wsConn' = [wsConn EXCEPT !.inbox = Append(@, frame),
                                            !.n = @ + 1]
       \/ /\ wsConn.peer = "open"
          /\ wsConn' = [wsConn EXCEPT !.inbox = Append(@, closeFrame),
                                      !.peer = "closing"]
       \/ /\ wsConn.peer \in {"open", "closing"}
          /\ wsConn' = [wsConn EXCEPT !.peer = "gone"]
    /\ UNCHANGED << fwdPc, response, pingPc, uplink, downlink, sshCh, conn,
                    fwdFrame >>

\* the client closes the channel, of itself or because the channel was
\* closed here (RFC 4254, 5.3: the party receiving the close message must
\* send it back); ch.Read then returns io.EOF
channelClose ==
    /\ conn[TheConn].sshOpen
    /\ sshCh.peer \in {"open", "eof"}
    /\ sshCh' = [sshCh EXCEPT !.peer = "closed"]
    /\ UNCHANGED << fwdPc, response, pingPc, uplink, downlink, wsConn, conn,
                    fwdFrame >>

\* the client sends data on the channel, or EOF, while the channel is not
\* closed here
client(limit) ==
    /\ conn[TheConn].sshOpen
    /\ ~sshCh.closed
    /\ sshCh.peer = "open"
    /\ \/ /\ sshCh.n < limit
          /\ sshCh' = [sshCh EXCEPT !.inbox = @ \o chunk(sshCh.n + 1),
                                    !.n = @ + 1]
       \/ sshCh' = [sshCh EXCEPT !.peer = "eof"]
    /\ UNCHANGED << fwdPc, response, pingPc, uplink, downlink, wsConn, conn,
                    fwdFrame >>

\* a dispatched connection whose client opened a direct-tcpip channel, the
\* handler having dialled the proxy; a keepalive request is under way
Dialled ==
    /\ closed = FALSE
    /\ listeners = {TheListener}
    /\ servePc = "accepting"
    /\ listenCtxDone = FALSE
    /\ connGroup = 2
    /\ sprites = noSprites
    /\ conn = [c \in Conns |->
                 IF c = TheConn
                 THEN [noConn EXCEPT
                          !.pc = "loop", !.user = "u", !.addr = "h:1",
                          !.auth = "accepted", !.stored = TRUE,
                          !.sprite = [name |-> "u", by |-> TheConn],
                          !.sshOpen = TRUE, !.ka = "sent",
                          !.chans = << [spawned("direct-tcpip") EXCEPT
                                           !.st = "handshake"] >>]
                 ELSE noConn]
    /\ shut = [k \in Callers |-> noCall]

FwdInit ==
    /\ SessionInit
    /\ KeysIdle
    /\ LocksIdle
    /\ Dialled
    /\ fwdPc = "init"
    /\ response = ""
    /\ pingPc = "none"
    /\ uplink = noTask
    /\ downlink = noTask
    /\ wsConn = noWs
    /\ sshCh = noCh

\* the handler and its goroutines
forward ==
    \/ \E ok \in BOOLEAN : WriteJSON(ok)
    \/ ReadJSON
    \/ pingTask
    \/ uplinkTask
    \/ downlinkTask
    \/ readDeadline
    \/ wgWait

\* the client leaves, and handleConn returns, while the handler is there
connEnds ==
    \/ fwdPc # "returned" /\ ClientDisconnect(TheConn)
    \/ fwdPc # "returned" /\ ChansClosed(TheConn)

\* the keepalive request times out, and handleConn closes the connection,
\* while the handler is there
connCancelled ==
    \/ fwdPc # "returned" /\ KaTimeout(TheConn)
    \/ fwdPc # "returned" /\ LoopCtxDone(TheConn)

FwdNext ==
    \/ forward
    \/ proxy(MaxMsgs)
    \/ client(MaxMsgs)
    \/ channelClose
    \/ connEnds

\* one direct-tcpip channel from the init message to the return of its
\* handler, and the data it carries
FwdSpec == FwdInit /\ [][FwdNext]_vars

CopyNext ==
    \/ forward
    \/ proxy(MaxLiveMsgs)
    \/ client(MaxLiveMsgs)
    \/ channelClose
    \/ connEnds
    \/ connCancelled

\* the tasks of the handler and of its connection take the steps they can
\* take, and the client answers the close of the channel with its own
FwdFairness ==
    /\ WF_vars(pingTask)
    /\ WF_vars(uplinkTask)
    /\ WF_vars(downlinkTask)
    /\ WF_vars(wgWait)
    /\ WF_vars(fwdPc # "returned" /\ LoopCtxDone(TheConn))
    /\ WF_vars(fwdPc # "returned" /\ ChansClosed(TheConn))
    /\ WF_vars(sshCh.closed /\ channelClose)

\* one direct-tcpip channel from the init message to the return of its
\* handler, with the cancellation of its connection
CopySpec == FwdInit /\ [][CopyNext]_vars /\ FwdFairness

\* the binary frames among the given ones
IsBinary(frame) == frame.type = "binary"
binaryFrames(frames) == SelectSeq(frames, IsBinary)

\* the payloads of the given frames, in order
payloads(frames) == [i \in 1..Len(frames) |-> frames[i].data]

\* the concatenation of the given strings, in order
RECURSIVE concat(_)
concat(strings) ==
    IF strings = << >> THEN ""
    ELSE Head(strings) \o concat(Tail(strings))

\* data has moved: a binary frame was written to the WebSocket, a payload
\* written to the SSH channel, or a goroutine of the data phase started
dataPhase ==
    \/ binaryFrames(wsConn.sent) # << >>
    \/ sshCh.written # ""
    \/ sshCh.reads # << >>
    \/ wsConn.got # << >>
    \/ fwdPc = "copy"
    \/ pingPc # "none"
    \/ uplink # noTask
    \/ downlink # noTask

\* C22: no data moves on a direct-tcpip channel unless the init message was
\* the first frame written and the response read had the status
\* "connected"; the one response is read after the init message was sent;
\* and when the init message cannot be sent, or the response cannot be read
\* or has another status, the handler returns in that step, the WebSocket
\* and the channel closed, without any goroutine of the data phase.
C22_ConnectedBeforeData ==
    /\ [](dataPhase =>
            /\ wsConn.sent # << >>
            /\ Head(wsConn.sent) = initMsg
            /\ response = "connected")
    /\ []((fwdPc = "returned" /\ response # "connected") =>
            /\ ~dataPhase
            /\ wsConn.closed
            /\ sshCh.closed)
    /\ [][response' # response =>
            /\ response = ""
            /\ fwdPc = "read"
            /\ wsConn.sent = << initMsg >>
            /\ wsConn.inbox # << >>
            /\ response' = Status(Head(wsConn.inbox).data)
         ]_vars
    /\ [][(fwdPc \in {"init", "read"} /\ fwdPc' # fwdPc) =>
            \/ fwdPc = "init" /\ fwdPc' = "read"
            \/ fwdPc = "read" /\ fwdPc' = "copy" /\ response' = "connected"
            \/ fwdPc' = "returned" /\ wsConn'.closed /\ sshCh'.closed
         ]_vars

\* C22: after the response "connected" data has moved both ways
C22_DataAfterConnected ==
    /\ response = "connected"
    /\ binaryFrames(wsConn.sent) # << >>
    /\ sshCh.written # ""

\* what the client has sent on the channel
clientSent == concat([k \in 1..sshCh.n |-> chunk(k)])

\* C23: the payloads of the binary frames written to the WebSocket are the
\* reads from the SSH channel, one frame per read and in order, but for the
\* read the uplink holds or whose write failed; the reads are what the
\* client sent, but for what is still buffered; and the bytes written to the
\* SSH channel are the concatenation of the payloads of the binary frames
\* received, in order, but for the payload the downlink holds or whose write
\* failed, frames of another type adding nothing.
C23_FramesAreReads ==
    LET frames == payloads(binaryFrames(wsConn.sent))
        want == concat(payloads(binaryFrames(wsConn.got)))
    IN  /\ uplink.pc \in {"none", "Read"} => frames = sshCh.reads
        /\ uplink.pc = "Write" =>
               sshCh.reads = Append(frames, uplink.data)
        /\ uplink.pc = "done" =>
               \/ frames = sshCh.reads
               \/ /\ sshCh.reads # << >>
                  /\ frames = SubSeq(sshCh.reads, 1, Len(sshCh.reads) - 1)
        /\ \A i \in 1..Len(sshCh.reads) : sshCh.reads[i] # ""
        /\ concat(sshCh.reads) \o sshCh.inbox = clientSent
        /\ downlink.pc \in {"none", "Read"} => sshCh.written = want
        /\ downlink.pc = "Write" =>
               sshCh.written \o downlink.data = want
        /\ downlink.pc = "done" =>
               \/ sshCh.written = want
               \/ LET got == binaryFrames(wsConn.got)
                  IN  /\ got # << >>
                      /\ sshCh.written \o got[Len(got)].data = want

\* C23: two chunks were read from the channel one by one and written as two
\* frames, and of a text and a binary message received the binary one alone
\* was written to the channel
C23_TwoEachWay ==
    /\ sshCh.reads = << chunk(1), chunk(2) >>
    /\ payloads(binaryFrames(wsConn.sent)) = << chunk(1), chunk(2) >>
    /\ wsConn.got = << textFrame(payload(1)), binaryFrame(payload(2)) >>
    /\ sshCh.written = payload(2)

\* a goroutine of the data phase has returned
taskExited ==
    /\ fwdPc = "copy"
    /\ pingPc = "done" \/ uplink.pc = "done" \/ downlink.pc = "done"

KeyFiles == {"absent", "unreadable", "garbage", "rsa", "ed25519"}

\* DefaultHostKeyPath: ~/.ssh/ + defaultHostKeyName
DefaultHostKeyPath == "~/.ssh/sprite_bootstrap_host_ed25519_key"

noKey == [signer |-> "", err |-> ""]

\* LoadHostKey: os.ReadFile, ssh.ParsePrivateKey, ssh.NewSignerWithAlgorithms
\* with KeyAlgoED25519 alone; the signer is named after the key it holds
LoadHostKey(file) ==
    CASE file = "absent" -> [signer |-> "", err |-> "file does not exist"]
      [] file = "unreadable" -> [signer |-> "", err |-> "permission denied"]
      [] file \in {"garbage", "partial"} ->
            [signer |-> "", err |-> "parse SSH private key: no key found"]
      [] file = "rsa" ->
            [signer |-> "",
             err |-> "expected Ed25519 private key: unsupported algorithm"]
      [] OTHER -> [signer |-> file, err |-> ""]

\* os.IsNotExist(err)
IsNotExist_AnyError(e) == e # ""
IsNotExist(e) == e = "file does not exist"

keyFrame == << sessVars, srvVars, fwdVars, lockVars >>

\* runServe returns the error
serveFails(e) ==
    /\ runPc' = "failed"
    /\ hostErr' = e

\* LoadOrGenerateHostKey: an empty path is replaced by the default one, which
\* needs the home directory
resolvePath(ok) ==
    /\ runPc = "start"
    /\ IF hostPath # ""
       THEN /\ ok
            /\ runPc' = "load"
            /\ UNCHANGED << hostPath, hostErr >>
       ELSE IF ok
       THEN /\ runPc' = "load"
            /\ hostPath' = DefaultHostKeyPath
            /\ UNCHANGED hostErr
       ELSE /\ serveFails("failed to load host key: "
                          \o "unable to find host key directory: "
                          \o "$HOME is not defined")
            /\ UNCHANGED hostPath
    /\ UNCHANGED << keyFile, pubFile, hostKey, keyFrame >>

\* LoadOrGenerateHostKey: key, err := LoadHostKey(path); the key is returned,
\* or GenerateHostKey is called if os.IsNotExist(err), or the error returned
LoadOrGenerateHostKey ==
    /\ runPc = "load"
    /\ LET r == LoadHostKey(keyFile)
       IN  IF r.err = ""
           THEN /\ hostKey' = r.signer
                /\ runPc' = "NewServer"
                /\ UNCHANGED hostErr
           ELSE IF IsNotExist(r.err)
           THEN /\ runPc' = "GenerateKey"
                /\ UNCHANGED << hostKey, hostErr >>
           ELSE /\ serveFails("failed to load host key: "
                              \o "failed to load SSH host key: " \o r.err)
                /\ UNCHANGED hostKey
    /\ UNCHANGED << hostPath, keyFile, pubFile, keyFrame >>

\* runServe returns the error of GenerateHostKey
generateFails(e) ==
    serveFails("failed to load host key: "
               \o "failed to generate SSH host key: " \o e)

\* GenerateHostKey: ed25519.GenerateKey, ssh.NewPublicKey,
\* ssh.NewSignerFromKey
GenerateKey(ok) ==
    /\ runPc = "GenerateKey"
    /\ IF ok
       THEN runPc' = "MkdirAll" /\ UNCHANGED hostErr
       ELSE generateFails("no entropy")
    /\ UNCHANGED << hostPath, keyFile, pubFile, hostKey, keyFrame >>

\* GenerateHostKey: os.MkdirAll(filepath.Dir(path), 0700)
MkdirAll(ok) ==
    /\ runPc = "MkdirAll"
    /\ IF ok
       THEN runPc' = "WriteKey" /\ UNCHANGED hostErr
       ELSE generateFails("mkdir: permission denied")
    /\ UNCHANGED << hostPath, keyFile, pubFile, hostKey, keyFrame >>

\* GenerateHostKey: os.WriteFile(path, buf.Bytes(), 0600); a write that
\* fails leaves no file, or a part of it
WriteKey(ok, partial) ==
    /\ runPc = "WriteKey"
    /\ IF ok
       THEN /\ ~partial
            /\ keyFile' = "generated"
            /\ runPc' = "WritePub"
            /\ UNCHANGED hostErr
       ELSE /\ keyFile' = IF partial THEN "partial" ELSE keyFile
            /\ generateFails("write: no space left on device")
    /\ UNCHANGED << hostPath, pubFile, hostKey, keyFrame >>

\* GenerateHostKey: _ = os.WriteFile(path+".pub", []byte(pubAuth), 0644);
\* return priv, nil
WritePub(ok) ==
    /\ runPc = "WritePub"
    /\ pubFile' = IF ok THEN "generated" ELSE pubFile
    /\ hostKey' = "generated"
    /\ runPc' = "NewServer"
    /\ UNCHANGED << hostPath, keyFile, hostErr, keyFrame >>

\* runServe: sshserver.NewServer with the host key, which is not nil
NewServer ==
    /\ runPc = "NewServer"
    /\ runPc' = IF hostKey = "" THEN "failed" ELSE "Bind"
    /\ hostErr' = IF hostKey = ""
                  THEN "failed to create server: no host key"
                  ELSE hostErr
    /\ UNCHANGED << hostPath, keyFile, pubFile, hostKey, keyFrame >>

\* runServe: sshserver.Bind(bindCtx, listenAddr), then go srv.Serve
Bind(ok) ==
    /\ runPc = "Bind"
    /\ IF ok
       THEN runPc' = "Serve" /\ UNCHANGED hostErr
       ELSE serveFails("failed to bind")
    /\ UNCHANGED << hostPath, keyFile, pubFile, hostKey, keyFrame >>

\* serve is started with or without --host-key, whatever the files are
KeyInit ==
    /\ SessionInit
    /\ ServerIdle
    /\ FwdIdle
    /\ LocksIdle
    /\ runPc = "start"
    /\ hostPath \in {"", "/etc/sprite/host_key"}
    /\ keyFile \in KeyFiles
    /\ pubFile \in {"absent", "stale"}
    /\ hostKey = ""
    /\ hostErr = ""

KeyNext ==
    \/ \E ok \in BOOLEAN : resolvePath(ok)
    \/ LoadOrGenerateHostKey
    \/ \E ok \in BOOLEAN : GenerateKey(ok)
    \/ \E ok \in BOOLEAN : MkdirAll(ok)
    \/ \E ok, partial \in BOOLEAN : WriteKey(ok, partial)
    \/ \E ok \in BOOLEAN : WritePub(ok)
    \/ NewServer
    \/ \E ok \in BOOLEAN : Bind(ok)

\* runServe from the host key to the start of Serve
KeySpec == KeyInit /\ [][KeyNext]_vars

\* C25: when runServe has started Serve with a key it generated, the private
\* key file and the .pub file were both written.
C25_BothFilesWritten ==
    (runPc = "Serve" /\ hostKey = "generated") =>
        (keyFile = "generated" /\ pubFile = "generated")

\* C26: the file at the host key path is written only by GenerateHostKey,
\* which is reached only when there was no file, and the .pub file only
\* after it; when the file cannot be read, cannot be parsed or holds a key
\* that is not Ed25519, runServe has failed once the load is over, with the
\* error of the load unless no path was found, no key being returned and
\* the file being as it was.
C26_GenerateOnlyIfAbsent ==
    /\ [][keyFile' # keyFile =>
            (keyFile = "absent" /\ runPc = "WriteKey")]_vars
    /\ [][pubFile' # pubFile =>
            (keyFile = "generated" /\ runPc = "WritePub")]_vars
    /\ [](runPc \in {"GenerateKey", "MkdirAll", "WriteKey"} =>
            keyFile = "absent")
    /\ []((runPc \notin {"start", "load"}
            /\ keyFile \in {"unreadable", "garbage", "rsa"}) =>
            /\ runPc = "failed"
            /\ hostKey = ""
            /\ \/ hostPath = ""
               \/ hostErr = "failed to load host key: "
                            \o "failed to load SSH host key: "
                            \o LoadHostKey(keyFile).err)

\* C26: serve has failed on an RSA key, which is still there
C26_RsaRefused ==
    /\ runPc = "failed"
    /\ hostPath # ""
    /\ keyFile = "rsa"
    /\ hostKey = ""

\* C27: once a call of Shutdown has returned and the connections have
\* drained, the helper goroutine it started has terminated or can take its
\* next step.
C27_HelperTerminates ==
    \A k \in Callers :
        (shut[k].pc = "returned" /\ connGroup = 0) =>
            \/ shut[k].helper \in {"none", "returned"}
            \/ ENABLED (HelperDrained(k) \/ ShutdownDrained(k))

\* C28: no window-sync task waits on the condition variable after the
\* broadcast of its scope's cancellation was done: a task whose scope is
\* cancelled has returned, or is still to be woken by that broadcast.
C28_CancelledWaiterWoken ==
    /\ lwCur # "waitingF"
    /\ lwStale["waitingF"] = 0

\* ------------------------------------------------------------------------
\* The [sprite] lines of the retry loop
\* ------------------------------------------------------------------------

\* the one request by which the client starts the remote process: shell, or
\* exec with whatever command line
startSession ==
    /\ hs = "serving"
    /\ ~running
    /\ \/ handleShell
       \/ \E c \in Commands : handleExec(c, FALSE)

\* a session channel as cmd serve opens it, with or without a pty granted
NoticeInit == Init \/ PtyInit

NoticeNext ==
    \/ startSession
    \/ cancellation
    \/ (StaleBound /\ RcBegin)
    \/ runCommand
    \/ backoff
    \/ listenForWindowChange

\* the retry loop to its end, of shell and of exec sessions
NoticeSpec == NoticeInit /\ [][NoticeNext]_vars

C30_NoWriteDuringRead ==
    [][win' # win => pc # "size"]_vars

\* ------------------------------------------------------------------------
\* The window-sync task and the start of the process
\* ------------------------------------------------------------------------

\* C31: the window-sync task is spawned after the process was started, so
\* that a size it sends with cmd.SetTTYSize is sent to a started process.
C31_NoSizeBeforeStart ==
    [][(lwCur \in {"notified", "notifiedF"} /\ lwCur' = "waiting") =>
            cmd.started]_vars

\* ------------------------------------------------------------------------
\* The connection task and its handlers
\* ------------------------------------------------------------------------

\* C32: when the task of a connection has finished (c.Wait() has returned
\* and connGroup.Done() was called), every handler goroutine it started has
\* returned.
C32_WaitsForHandlers ==
    \A c \in Conns :
        conn[c].pc = "done" =>
            \A i \in DOMAIN conn[c].chans :
                conn[c].chans[i].st \in {"returned", "rejected"}

\* C33: when the session handler has returned, the run task it started has
\* finished and no window-sync task is left.
C33_SessionTasksDrained ==
    hs = "returned" =>
        /\ pc \in {"idle", "done", "panic"}
        /\ lwCur = "none"
        /\ liveStale = 0

\* ------------------------------------------------------------------------
\* Serve against Shutdown
\* ------------------------------------------------------------------------

\* a call of Shutdown has closed and deleted the listeners it found
swept ==
    \E k \in Callers : /\ shut[k].pc \in {"select", "returned"}
                       /\ shut[k].result # "server closed"

\* the listener was closed by a call of Shutdown
listenerClosed == \E k \in Callers : TheListener \in shut[k].closedListeners

\* C34: once Shutdown has closed the listeners, the listener set is empty
\* and stays so; a Serve that registered its listener has had it closed,
\* and accepts no connection from then on; a Serve that did not register it
\* returns at once, the server being closed, having accepted nothing and
\* registered nothing.
C34_NoListenerAfterSweep ==
    /\ [](swept => listeners = {})
    /\ []((swept /\ servePc \in {"tracked", "accepting"}) => listenerClosed)
    /\ []((servePc \in {"tracked", "accepting"} /\ ~listenerClosed) =>
            TheListener \in listeners)
    /\ [][swept =>
            \A c \in Conns : conn[c].pc = "free" => conn'[c].pc = "free"]_vars
    /\ [][(servePc = "idle" /\ servePc' = "returned") =>
            /\ closed
            /\ UNCHANGED << listeners, conn, connGroup >>]_vars

\* C34: Shutdown has swept the listener Serve had registered and is waiting
\* for the connection Serve had accepted; Serve is still in l.Accept()
C34_SweptWhileAccepting ==
    /\ swept
    /\ servePc = "accepting"
    /\ listenerClosed
    /\ conn[TheConn].pc = "loop"

\* ------------------------------------------------------------------------
\* The retry loop after a process that ran to its end
\* ------------------------------------------------------------------------

\* C35: once some cmd.Wait() has returned nil or an exit code, no further
\* cmd.Start() of the session succeeds.
C35_NoRestartAfterExit ==
    [][cleanReturn => ~(~cmd.started /\ cmd'.started)]_vars

\* ------------------------------------------------------------------------
\* The client closes a session channel
\* ------------------------------------------------------------------------

\* C36: the step in which the session handler returns, its request stream
\* having ended, leaves the session's scope cancelled and the channel
\* closed; the scope is that of the remote process, whose calls may from
\* then on return the context's error, and a pending backoff sleep can be
\* left by the Done case at once.
C36_CloseCancelsSession ==
    /\ [][(hs = "serving" /\ hs' = "returned") =>
            (ctxDone' /\ chClosed')]_vars
    /\ [](hs = "returned" => ctxDone)
    /\ []((ctxDone /\ pc \in {"start", "wait"}) => ErrCanceled \in CallErrors)
    /\ []((ctxDone /\ pc = "backoff") => ENABLED BackoffCancelled)

\* C36: the client closed the channel while the process was running
C36_ClosedWhileRunning ==
    /\ hs = "returned"
    /\ cancelEarly
    /\ ctxDone
    /\ pc = "wait"
    /\ cmd.started

\* ------------------------------------------------------------------------
\* The argv of an exec request
\* ------------------------------------------------------------------------

C38_OwnCancellationOnly ==
    [][\A c \in Conns :
          (conn[c].pc = "loop" /\ ~connCtxDone(c) /\ connCtxDone(c)') =>
              \/ rootCtxDone'
              \/ conn'[c].kaCancelled
              \/ conn'[c].pc # "loop"]_vars

\* ------------------------------------------------------------------------
\* The window-sync tasks of a session
\* ------------------------------------------------------------------------

\* the window-sync tasks that have not returned, that of the current
\* attempt and those of earlier attempts
aliveTasks == (IF lwCur = "none" THEN 0 ELSE 1) + liveStale

\* C39: at most one window-sync task of the session is alive, whatever the
\* number of attempts.
C39_OneSyncTask == aliveTasks <= 1

\* ------------------------------------------------------------------------
\* The lock file of the SSH config (internal/tools/vscode.go)
\* ------------------------------------------------------------------------

\* withSSHConfigLock: for i := 0; i < 50; i++
LockTries == 50

\* removeSSHConfigEntryFromString: the block of spriteName is left out
removeSSHConfigEntryFromString(hosts, spriteName) == hosts \ {spriteName}

\* os.Getpid(): the pid the process writes into the lock file
Getpid(p) == p

\* os.ReadFile(lockPath) with the error dropped: the content of the file at
\* the path, nothing when there is no file
lockFileContent == IF lockPath = 0 THEN 0 ELSE lockContent[lockPath]

\* a process changes, the others stay
procStep(p, r) == proc' = [proc EXCEPT ![p] = r]

\* setupVSCode calls addSSHConfigEntry for its sprite
addSSHConfigEntry(p) ==
    /\ proc[p].pc = "idle"
    /\ procStep(p, [proc[p] EXCEPT !.pc = "open", !.op = "add"])
    /\ UNCHANGED << lockPath, lockContent, config >>

\* withSSHConfigLock:108 os.OpenFile(lockPath, O_CREATE|O_RDWR): the file at
\* the path is opened, and created empty when there is none
OpenFile(p) ==
    /\ proc[p].pc = "open"
    /\ IF lockPath = 0
       THEN /\ lockPath' = p
            /\ lockContent' = [lockContent EXCEPT ![p] = 0]
            /\ procStep(p, [proc[p] EXCEPT !.pc = "try", !.fd = p, !.i = 0])
       ELSE /\ procStep(p, [proc[p] EXCEPT !.pc = "try", !.fd = lockPath,
                                           !.i = 0])
            /\ UNCHANGED << lockPath, lockContent >>
    /\ UNCHANGED config

\* withSSHConfigLock:109-111 OpenFile fails: the error is returned, fn is
\* not called and nothing was deferred
OpenFileFails(p) ==
    /\ proc[p].pc = "open"
    /\ procStep(p, [proc[p] EXCEPT !.pc = "done"])
    /\ UNCHANGED << lockPath, lockContent, config >>

\* withSSHConfigLock:117-126 one turn of the loop up to the test of the
\* content: empty, the process goes on to write its pid; not empty, it
\* sleeps and counts; 128 after LockTries turns fn is called all the same
ReadLock(p) ==
    /\ proc[p].pc = "try"
    /\ IF proc[p].i >= LockTries
       THEN procStep(p, [proc[p] EXCEPT !.pc = "fnRead"])
       ELSE IF lockFileContent = 0
       THEN procStep(p, [proc[p] EXCEPT !.pc = "writePid"])
       ELSE procStep(p, [proc[p] EXCEPT !.i = @ + 1])
    /\ UNCHANGED << lockPath, lockContent, config >>

\* withSSHConfigLock:122-123 lockFile.WriteString(pid) into the file that
\* was opened, whether or not it is still the one at the path; break
WritePid(p) ==
    /\ proc[p].pc = "writePid"
    /\ lockContent' = [lockContent EXCEPT ![proc[p].fd] = Getpid(p)]
    /\ procStep(p, [proc[p] EXCEPT !.pc = "fnRead", !.acquired = TRUE])
    /\ UNCHANGED << lockPath, config >>

\* addSSHConfigEntry:149-155 the config is read, a missing file reading as
\* empty, and the block of the sprite is taken out of the string
fnRead(p) ==
    /\ proc[p].pc = "fnRead"
    /\ procStep(p, [proc[p] EXCEPT
            !.pc = "fnWrite",
            !.configStr = removeSSHConfigEntryFromString(config.hosts, p)])
    /\ UNCHANGED << lockPath, lockContent, config >>

\* addSSHConfigEntry:134-142 sshConfigPath or MkdirAll fails: fn returns
\* the error and the deferred calls run
fnFails(p) ==
    /\ proc[p].pc = "fnRead"
    /\ procStep(p, [proc[p] EXCEPT !.pc = "remove"])
    /\ UNCHANGED << lockPath, lockContent, config >>

\* addSSHConfigEntry:172-174 the entry is appended to the string and the
\* string written over the config file
fnWrite(p) ==
    /\ proc[p].pc = "fnWrite"
    /\ config' = [exists |-> TRUE, hosts |-> proc[p].configStr \cup {p}]
    /\ procStep(p, [proc[p] EXCEPT !.pc = "remove", !.wrote = TRUE])
    /\ UNCHANGED << lockPath, lockContent >>

\* withSSHConfigLock:113 deferred os.Remove(lockPath): whatever file is at
\* the path is removed
Remove(p) ==
    /\ proc[p].pc = "remove"
    /\ lockPath' = 0
    /\ procStep(p, [proc[p] EXCEPT !.pc = "close"])
    /\ UNCHANGED << lockContent, config >>

\* withSSHConfigLock:112 deferred lockFile.Close()
Close(p) ==
    /\ proc[p].pc = "close"
    /\ procStep(p, [proc[p] EXCEPT !.pc = "done", !.fd = 0])
    /\ UNCHANGED << lockPath, lockContent, config >>

\* cleanup calls removeSSHConfigEntry for its sprite: 219-225 the config is
\* read, and nothing more is done when there is no file
removeSSHConfigEntry(p) ==
    /\ proc[p].pc = "idle"
    /\ IF config.exists
       THEN procStep(p, [proc[p] EXCEPT
                !.pc = "rmWrite", !.op = "remove",
                !.configStr = removeSSHConfigEntryFromString(config.hosts, p)])
       ELSE procStep(p, [proc[p] EXCEPT !.pc = "done", !.op = "remove"])
    /\ UNCHANGED << lockPath, lockContent, config >>

\* removeSSHConfigEntry:228 os.WriteFile(configPath, newConfig)
rmWrite(p) ==
    /\ proc[p].pc = "rmWrite"
    /\ config' = [exists |-> TRUE, hosts |-> proc[p].configStr]
    /\ procStep(p, [proc[p] EXCEPT !.pc = "done", !.wrote = TRUE])
    /\ UNCHANGED << lockPath, lockContent >>

\* the processes start with the config file missing or holding any entries
LockInit ==
    /\ SessionInit
    /\ ServerIdle
    /\ FwdIdle
    /\ KeysIdle
    /\ lockPath = 0
    /\ lockContent = [p \in Procs |-> 0]
    /\ proc = [p \in Procs |-> noProc]
    /\ \E e \in BOOLEAN, h \in SUBSET Procs :
            /\ h # {} => e
            /\ config = [exists |-> e, hosts |-> h]

lockFrame == << sessVars, srvVars, fwdVars, keyVars >>

LockNext ==
    \E p \in Procs :
        /\ \/ addSSHConfigEntry(p)
           \/ OpenFile(p)
           \/ OpenFileFails(p)
           \/ ReadLock(p)
           \/ WritePid(p)
           \/ fnRead(p)
           \/ fnFails(p)
           \/ fnWrite(p)
           \/ Remove(p)
           \/ Close(p)
           \/ removeSSHConfigEntry(p)
           \/ rmWrite(p)
        /\ UNCHANGED lockFrame

\* processes of one user setting up and cleaning up VS Code for sprites
LockSpec == LockInit /\ [][LockNext]_vars

\* the process is executing the function withSSHConfigLock protects
inFn(p) == proc[p].pc \in {"fnRead", "fnWrite"}

\* the lock file at the path is the one the process has open and holds its
\* pid
holdsLock(p) ==
    /\ lockPath # 0
    /\ proc[p].fd = lockPath
    /\ lockContent[lockPath] = Getpid(p)

\* C40: two processes never execute the protected read-modify-write at the
\* same time; a process executes it only after it wrote its pid into the
\* lock file; a process never removes the lock file that holds the pid of
\* another; and a process writes the config file only while it holds the
\* lock.
C40_ConfigLock ==
    /\ [](\A p, q \in Procs : (inFn(p) /\ inFn(q)) => p = q)
    /\ [](\A p \in Procs : inFn(p) => proc[p].acquired)
    /\ [][\A p \in Procs :
            (proc[p].pc = "remove" /\ proc'[p].pc = "close" /\ lockPath # 0)
                => lockContent[lockPath] \in {0, Getpid(p)}]_vars
    /\ [][\A p \in Procs :
            (~proc[p].wrote /\ proc'[p].wrote) => holdsLock(p)]_vars
====
